---- MODULE Spec2Model ----
(***************************************************************************)
(* Model of the SchemaGrid library (ag-grid-schema-validator): the         *)
(* per-field row validation (SchemaGrid.validateRow and                    *)
(* validateDataWithSchema), the column generation                          *)
(* (getDefaultColDef, generateColumnsFromSchema,                           *)
(* SchemaGrid.generatedColumnDefs), and the grid component itself: row     *)
(* identities, the validate-all effect, cell edits, renders and the        *)
(* closures that read the validation map; the parent component, with the   *)
(* callbacks it passes and the state it keeps; and the two validators of   *)
(* the DataGrid applications, the hand-written one and the whole-schema    *)
(* one.                                                                    *)
(*                                                                         *)
(* JavaScript values are records tagged by k (the typeof of the value);    *)
(* strings that the code inspects character by character (cell values,     *)
(* field names in includes()) are sequences of one-character strings.      *)
(* A JavaScript object with optional keys is a record whose DOMAIN holds   *)
(* exactly the keys that are set.                                          *)
(***************************************************************************)
EXTENDS Integers, Sequences, FiniteSets, TLC

VARIABLES
    jsonSchema,   \* the jsonSchema prop: properties in key order, required
    columnDefs,   \* the columnDefs prop (Undefined when omitted)
    ajv,          \* the component's Ajv instance: compiled validator of a
                  \* field schema |-> the errors property its last call left
    outcome,      \* the last call of a row validator and what it produced
    columns,      \* the last call of a column generator and what it produced
    rowData,      \* the rowData prop: the row objects, which the grid edits
                  \* in place; a row object is known by its position
    validationErrors, \* the validationErrors state React holds, every queued
                  \* update applied: row identity |-> errors
    rendered,     \* validationErrors as the closures of the last render see it
    memoized,     \* validationErrors as the cellStyle closures of the
                  \* memoized column definitions see it
    rowIdMap,     \* rowIdMap: row object |-> generated identity
    reported,     \* the last argument of onValidationError
    handled,      \* the last effect or event handler that ran
    effectPending, \* the validate-all effect is scheduled
    edits,        \* the number of cell edits handled so far
    parent        \* the component that renders the grid: the callbacks it
                  \* passes, the state it keeps, its scheduled render

gridVars == <<rowData, validationErrors, rendered, memoized, rowIdMap, reported,
              handled, effectPending, edits, parent>>

vars == <<jsonSchema, columnDefs, ajv, outcome, columns, rowData,
          validationErrors, rendered, memoized, rowIdMap, reported, handled,
          effectPending, edits, parent>>

(***************************************************************************)
(* Bounds                                                                  *)
(***************************************************************************)
\* Largest number of properties a schema of the model declares.
MaxFields == 2

\* Largest number of rows the rowData prop holds.
MaxRows == 2

\* Largest number of cell edits the grid delivers.
MaxEdits == 2

(***************************************************************************)
(* JavaScript values                                                       *)
(***************************************************************************)
Undefined == [k |-> "undefined"]
Null == [k |-> "null"]
Str(chars) == [k |-> "string", s |-> chars]
Num(n) == [k |-> "number", n |-> n]
Bool(b) == [k |-> "boolean", b |-> b]

EmptyString == Str(<<>>)

Upper == {"A", "B", "C", "D", "E", "F", "G", "H", "I", "J", "K", "L", "M",
          "N", "O", "P", "Q", "R", "S", "T", "U", "V", "W", "X", "Y", "Z"}
Digit == {"0", "1", "2", "3", "4", "5", "6", "7", "8", "9"}

\* data[field]: a key the row does not have reads as undefined.
Get(data, field) == IF field \in DOMAIN data THEN data[field] ELSE Undefined

\* Array.prototype.includes on a sequence
Includes(seq, x) == \E i \in 1..Len(seq) : seq[i] = x

RECURSIVE SelectErrors(_, _)
\* Array.prototype.filter((err) => err.field === field)
SelectErrors(errs, field) ==
    IF errs = <<>> THEN <<>>
    ELSE IF Head(errs).field = field
         THEN <<Head(errs)>> \o SelectErrors(Tail(errs), field)
         ELSE SelectErrors(Tail(errs), field)

(***************************************************************************)
(* The schema validator (Ajv 8 with allErrors: true and ajv-formats)       *)
(***************************************************************************)
IdPattern == "^[A-Z]{2}[0-9]{4}$"

\* RegExp.test for the patterns the schemas of the model use.
RegexTest(pattern, s) ==
    CASE pattern = IdPattern ->
            /\ Len(s) = 6
            /\ \A i \in 1..2 : s[i] \in Upper
            /\ \A i \in 3..6 : s[i] \in Digit
      [] OTHER -> TRUE

DigitValue(c) ==
    CASE c = "0" -> 0 [] c = "1" -> 1 [] c = "2" -> 2 [] c = "3" -> 3
      [] c = "4" -> 4 [] c = "5" -> 5 [] c = "6" -> 6 [] c = "7" -> 7
      [] c = "8" -> 8 [] c = "9" -> 9

DaysInMonth(year, month) ==
    IF month = 2
    THEN IF year % 4 = 0 /\ (year % 100 # 0 \/ year % 400 = 0) THEN 29 ELSE 28
    ELSE IF month \in {4, 6, 9, 11} THEN 30 ELSE 31

\* ajv-formats "date": YYYY-MM-DD with a month of the year and a day of that month.
IsDate(s) ==
    /\ Len(s) = 10
    /\ s[5] = "-" /\ s[8] = "-"
    /\ \A i \in {1, 2, 3, 4, 6, 7, 9, 10} : s[i] \in Digit
    /\ LET year == 1000 * DigitValue(s[1]) + 100 * DigitValue(s[2])
                   + 10 * DigitValue(s[3]) + DigitValue(s[4])
           month == 10 * DigitValue(s[6]) + DigitValue(s[7])
           day == 10 * DigitValue(s[9]) + DigitValue(s[10])
       IN  /\ month \in 1..12
           /\ day \in 1..DaysInMonth(year, month)

\* The formats ajv-formats registers that the schemas of the model use.
KnownFormats == {"date", "date-time"}

FormatTest(format, s) ==
    CASE format = "date" -> IsDate(s)

\* The keywords of the JSON Schema vocabularies Ajv knows.
KnownKeywords == {"type", "title", "description", "enum", "format", "pattern",
                  "minLength", "maxLength", "minimum", "maximum"}

\* ajv.compile(fieldSchema): in Ajv 8 strictSchema is on by default, so a
\* keyword outside the vocabularies ("hidden", "width") or a format that is
\* not registered makes compile throw.
AjvCompileThrows(fieldSchema) ==
    \/ \E key \in DOMAIN fieldSchema : key \notin KnownKeywords
    \/ "format" \in DOMAIN fieldSchema /\ fieldSchema.format \notin KnownFormats

\* The JSON Schema type test of a value.
IsOfType(type, v) ==
    CASE type = "string" -> v.k = "string"
      [] type = "number" -> v.k = "number"
      [] type = "integer" -> v.k = "number"   \* the numbers of the model are whole
      [] type = "boolean" -> v.k = "boolean"
      [] type = "null" -> v.k = "null"
      [] OTHER -> FALSE

NumberKeywords == {"maximum", "minimum"}
StringKeywords == {"maxLength", "minLength", "pattern", "format"}

\* Ajv checks a single type together with the keyword group of that type when
\* the schema has keywords of the group, and ahead of all groups otherwise.
TypeDeferred(fs) ==
    /\ "type" \in DOMAIN fs
    /\ \/ fs.type = "number" /\ DOMAIN fs \cap NumberKeywords # {}
       \/ fs.type = "string" /\ DOMAIN fs \cap StringKeywords # {}

AjvError(keyword, message) == [keyword |-> keyword, message |-> message]

TypeError(fs) == <<AjvError("type", "must be " \o fs.type)>>

AjvTypeErrors(fs, v) ==
    IF "type" \in DOMAIN fs /\ ~TypeDeferred(fs) /\ ~IsOfType(fs.type, v)
    THEN TypeError(fs) ELSE <<>>

AjvEnumErrors(fs, v) ==
    IF "enum" \in DOMAIN fs /\ ~Includes(fs.enum, v)
    THEN <<AjvError("enum", "must be equal to one of the allowed values")>>
    ELSE <<>>

AjvNumberErrors(fs, v) ==
    IF v.k = "number"
    THEN (IF "maximum" \in DOMAIN fs /\ v.n > fs.maximum
          THEN <<AjvError("maximum", "must be <= " \o ToString(fs.maximum))>>
          ELSE <<>>)
         \o
         (IF "minimum" \in DOMAIN fs /\ v.n < fs.minimum
          THEN <<AjvError("minimum", "must be >= " \o ToString(fs.minimum))>>
          ELSE <<>>)
    ELSE IF TypeDeferred(fs) /\ fs.type = "number" THEN TypeError(fs) ELSE <<>>

AjvStringErrors(fs, v) ==
    IF v.k = "string"
    THEN (IF "maxLength" \in DOMAIN fs /\ Len(v.s) > fs.maxLength
          THEN <<AjvError("maxLength", "must NOT have more than "
                          \o ToString(fs.maxLength) \o " characters")>>
          ELSE <<>>)
         \o
         (IF "minLength" \in DOMAIN fs /\ Len(v.s) < fs.minLength
          THEN <<AjvError("minLength", "must NOT have fewer than "
                          \o ToString(fs.minLength) \o " characters")>>
          ELSE <<>>)
         \o
         (IF "pattern" \in DOMAIN fs /\ ~RegexTest(fs.pattern, v.s)
          THEN <<AjvError("pattern", "must match pattern \"" \o fs.pattern \o "\"")>>
          ELSE <<>>)
         \o
         (IF "format" \in DOMAIN fs /\ ~FormatTest(fs.format, v.s)
          THEN <<AjvError("format", "must match format \"" \o fs.format \o "\"")>>
          ELSE <<>>)
    ELSE IF TypeDeferred(fs) /\ fs.type = "string" THEN TypeError(fs) ELSE <<>>

\* The errors a compiled validator collects for a value under allErrors: true:
\* every violated keyword, the untyped group (enum) before the number and the
\* string group.
AjvAllErrors(fs, v) ==
    AjvTypeErrors(fs, v) \o AjvEnumErrors(fs, v)
    \o AjvNumberErrors(fs, v) \o AjvStringErrors(fs, v)

\* new Ajv({ allErrors: true }): the list a call of the validator collects.
AjvCollect(fs, v) == AjvAllErrors(fs, v)

\* validate.errors after a call: null when the value is valid.
ErrorsArray(items) == [k |-> "array", items |-> items]

AjvValidate(fs, v) ==
    LET items == AjvCollect(fs, v)
    IN  [valid |-> items = <<>>,
         errors |-> IF items = <<>> THEN Null ELSE ErrorsArray(items)]

(***************************************************************************)
(* Schemas and rows                                                        *)
(***************************************************************************)
\* Object.keys(jsonSchema.properties)
Keys(properties) == [i \in 1..Len(properties) |-> properties[i].field]

\* jsonSchema.properties[field]
FieldSchemaOf(schema, field) ==
    LET i == CHOOSE j \in 1..Len(schema.properties) :
                 schema.properties[j].field = field
    IN  schema.properties[i].schema

\* jsonSchema.required || []
RequiredFields(schema) ==
    IF "required" \in DOMAIN schema THEN schema.required ELSE <<>>

\* The sequences of n distinct elements of S
DistinctSeqs(S, n) ==
    {q \in [1..n -> S] : \A i, j \in 1..n : i # j => q[i] # q[j]}

DistinctSeqsUpTo(S, n) == UNION {DistinctSeqs(S, m) : m \in 0..n}

\* The field schemas of the rows that are validated.  "note" carries the
\* display keyword hidden, which getDefaultColDef reads.
RowFieldSchema(field) ==
    CASE field = "id" ->
            [type |-> "string", pattern |-> IdPattern, minLength |-> 5,
             title |-> "ID"]
      [] field = "age" ->
            [type |-> "integer", minimum |-> 18, maximum |-> 100]
      [] field = "note" ->
            [type |-> "string", maxLength |-> 3, hidden |-> TRUE]

RowFieldNames == {"id", "age", "note"}

\* The values a row of the model holds under a key.
RowValues(field) ==
    CASE field = "id" ->
            {Null, EmptyString, Str(<<"a", "b", "1", "2">>),
             Str(<<"A", "B", "1", "2", "3", "4">>)}
      [] field = "age" -> {Null, Num(15), Num(18)}
      [] field = "note" ->
            {EmptyString, Str(<<"a", "b", "c", "d">>), Str(<<"o", "k">>)}

SchemasOver(names, fieldSchemas) ==
    LET propertySeqs == DistinctSeqsUpTo(names, MaxFields) \ {<<>>}
        PropertiesOf(q) ==
            [i \in 1..Len(q) |-> [field |-> q[i], schema |-> fieldSchemas[q[i]]]]
        Declared(q) == {q[i] : i \in 1..Len(q)}
    IN  UNION {
          {[properties |-> PropertiesOf(q)]}
          \cup {[properties |-> PropertiesOf(q), required |-> r] :
                    r \in DistinctSeqsUpTo(Declared(q), Len(q))}
          : q \in propertySeqs}

\* The schemas of the validated rows: every name of required is a property.
RowSchemas ==
    SchemasOver(RowFieldNames, [f \in RowFieldNames |-> RowFieldSchema(f)])

\* Every row over the field names of the model: any subset of the keys is set.
AllRows ==
    UNION {{row \in [present -> UNION {RowValues(f) : f \in present}] :
                \A f \in present : row[f] \in RowValues(f)}
           : present \in SUBSET RowFieldNames}

\* The rows of a schema: the rows whose keys are fields of the schema.
RowsOf(schema) ==
    LET fields == {schema.properties[i].field : i \in 1..Len(schema.properties)}
    IN  {row \in AllRows : DOMAIN row \subseteq fields}

(***************************************************************************)
(* Row validation                                                          *)
(***************************************************************************)
\* A variant that takes every falsy value for a missing one: !value
IsMissing_Falsy(value) ==
    value \in {Null, Undefined, EmptyString, Num(0), Bool(FALSE)}

\* value === null || value === undefined || value === ""
IsMissing(value) == value = Null \/ value = Undefined \/ value = EmptyString

\* A variant that tests for undefined only.
IsNullish_UndefinedOnly(value) == value = Undefined

\* A variant that skips every falsy value of an optional field: !value
IsNullish_Falsy(value) ==
    value \in {Null, Undefined, EmptyString, Num(0), Bool(FALSE)}

\* value === null || value === undefined
IsNullish(value) == value = Null \/ value = Undefined

EmptyAjv == [f \in {} |-> Null]

AjvPut(instance, field, errors) ==
    [f \in DOMAIN instance \cup {field} |->
        IF f = field THEN errors ELSE instance[f]]

\* errors.push({ field, message: error.message || `Invalid ${field}` }) for
\* each error of the validator
RECURSIVE PushErrors(_, _)
PushErrors(field, items) ==
    IF items = <<>> THEN <<>>
    ELSE <<[field |-> field,
            message |-> IF Head(items).message = ""
                        THEN "Invalid " \o field ELSE Head(items).message]>>
         \o PushErrors(field, Tail(items))

\* A variant that reads the errors property the validator held before the call.
ReadErrors_Stale(instanceBefore, instanceAfter, field) ==
    IF field \in DOMAIN instanceBefore
    THEN instanceBefore[field] ELSE instanceAfter[field]

\* The errors property the code reads after calling the validator.
ReadErrors(instanceBefore, instanceAfter, field) == instanceAfter[field]

\* One iteration of the forEach over Object.keys(properties).  st is the
\* loop's state: the errors array, the Ajv instance in use, and whether
\* ajv.compile threw (which ends the call).
ValidateField(schema, data, field, st) ==
    LET value == Get(data, field)
        isRequired == Includes(RequiredFields(schema), field)
        fieldSchema == FieldSchemaOf(schema, field)
    IN  IF isRequired /\ IsMissing(value)
        THEN [st EXCEPT !.errors =
                 Append(@, [field |-> field, message |-> field \o " is required"])]
        ELSE IF ~isRequired /\ IsNullish(value)
        THEN st
        ELSE IF AjvCompileThrows(fieldSchema)
        THEN [st EXCEPT !.threw = TRUE]
        ELSE LET res == AjvValidate(fieldSchema, value)
                 after == AjvPut(st.ajv, field, res.errors)
                 read == ReadErrors(st.ajv, after, field)
             IN  [st EXCEPT
                    !.ajv = after,
                    !.errors = IF ~res.valid /\ read # Null
                               THEN @ \o PushErrors(field, read.items)
                               ELSE @]

\* A variant that processes the required fields first.
FieldOrder_RequiredFirst(schema) ==
    LET keys == Keys(schema.properties)
    IN  SelectSeq(keys, LAMBDA f : Includes(RequiredFields(schema), f))
        \o SelectSeq(keys, LAMBDA f : ~Includes(RequiredFields(schema), f))

\* The order in which the fields are processed.
FieldOrder(schema) == Keys(schema.properties)

RECURSIVE ForEachField(_, _, _, _)
ForEachField(schema, data, fields, st) ==
    IF fields = <<>> \/ st.threw THEN st
    ELSE ForEachField(schema, data, Tail(fields),
                      ValidateField(schema, data, Head(fields), st))

\* The body of validateRow / validateDataWithSchema run with an Ajv instance.
RunValidation(schema, data, instance) ==
    ForEachField(schema, data, FieldOrder(schema),
                 [errors |-> <<>>, ajv |-> instance, threw |-> FALSE])

Outcome(op, data, st) ==
    [op |-> op, data |-> data, threw |-> st.threw,
     errors |-> IF st.threw THEN <<>> ELSE st.errors]

\* { ...prev, [rowId]: errors }
WithEntry(prev, rowId, errors) ==
    [id \in DOMAIN prev \cup {rowId} |-> IF id = rowId THEN errors ELSE prev[id]]

\* A variant that stores its result in the validation map itself.
ValidateRow_WritesMap(data) ==
    LET st == RunValidation(jsonSchema, data, ajv)
    IN  /\ outcome' = Outcome("validateRow", data, st)
        /\ ajv' = st.ajv
        /\ validationErrors' = WithEntry(validationErrors, "row", st.errors)
        /\ UNCHANGED <<jsonSchema, columnDefs, columns, rowData, rendered,
                       memoized, rowIdMap, reported, handled, effectPending,
                       edits, parent>>

\* SchemaGrid.validateRow(data): uses the component's memoized Ajv instance.
ValidateRow(data) ==
    LET st == RunValidation(jsonSchema, data, ajv)
    IN  /\ outcome' = Outcome("validateRow", data, st)
        /\ ajv' = st.ajv
        /\ UNCHANGED <<jsonSchema, columnDefs, columns>>
        /\ UNCHANGED gridVars

\* validateDataWithSchema(data, schema): builds a new Ajv instance per call.
ValidateDataWithSchema(data) ==
    LET st == RunValidation(jsonSchema, data, EmptyAjv)
    IN  /\ outcome' = Outcome("validateDataWithSchema", data, st)
        /\ UNCHANGED <<jsonSchema, columnDefs, ajv, columns>>
        /\ UNCHANGED gridVars

NoCall == [op |-> "none"]

\* useState<ValidationErrorsMap>({})
EmptyMap == [rowId \in {} |-> <<>>]

\* A parent that passes the same props on every render: an onValidationError
\* that keeps nothing of what it receives, and an onCellValueChanged.
StableParent ==
    [onValidationError |-> "log", onCellValueChanged |-> TRUE, fresh |-> FALSE,
     state |-> NoCall, renderPending |-> FALSE]

\* The grid state of a component that was given no rows.
NoRows ==
    /\ rowData = <<>>
    /\ validationErrors = EmptyMap
    /\ rendered = EmptyMap
    /\ memoized = EmptyMap
    /\ rowIdMap = EmptyMap
    /\ reported = NoCall
    /\ handled = NoCall
    /\ effectPending = FALSE
    /\ edits = 0
    /\ parent = StableParent

Init ==
    /\ jsonSchema \in RowSchemas
    /\ columnDefs = Undefined
    /\ ajv = EmptyAjv
    /\ outcome = NoCall
    /\ columns = NoCall
    /\ NoRows

Next ==
    \E data \in RowsOf(jsonSchema) : ValidateRow(data)

Spec == Init /\ [][Next]_vars

\* The exported helper, a function of its two arguments alone.
NextUtils ==
    \E data \in RowsOf(jsonSchema) : ValidateDataWithSchema(data)

SpecUtils == Init /\ [][NextUtils]_vars

\* Field schemas whose constraints the falsy values "", 0 and false violate.
ValueFieldSchema(field) ==
    CASE field = "name" -> [type |-> "string", minLength |-> 1]
      [] field = "count" -> [type |-> "integer", minimum |-> 1, maximum |-> 5]
      [] field = "flag" -> [type |-> "boolean", enum |-> <<Bool(TRUE)>>]

ValueFieldNames == {"name", "count", "flag"}

ValueProperties ==
    <<[field |-> "name", schema |-> ValueFieldSchema("name")],
      [field |-> "count", schema |-> ValueFieldSchema("count")],
      [field |-> "flag", schema |-> ValueFieldSchema("flag")]>>

\* The three fields all optional, all required, and count alone required.
ValueSchemas ==
    {[properties |-> ValueProperties],
     [properties |-> ValueProperties, required |-> <<"name", "count", "flag">>],
     [properties |-> ValueProperties, required |-> <<"count">>]}

FieldValues(field) ==
    CASE field = "name" -> {Null, EmptyString, Str(<<"x">>)}
      [] field = "count" -> {Null, Num(0), Num(1), Num(6)}
      [] field = "flag" -> {Null, Bool(FALSE), Bool(TRUE)}

\* Every row over the three fields: any subset of the keys is set.
ValueRows ==
    UNION {{row \in [present -> UNION {FieldValues(f) : f \in present}] :
                \A f \in present : row[f] \in FieldValues(f)}
           : present \in SUBSET ValueFieldNames}

InitValues ==
    /\ jsonSchema \in ValueSchemas
    /\ columnDefs = Undefined
    /\ ajv = EmptyAjv
    /\ outcome = NoCall
    /\ columns = NoCall
    /\ NoRows

NextValues ==
    \/ \E data \in ValueRows : ValidateRow(data)
    \/ \E data \in ValueRows : ValidateDataWithSchema(data)

\* The two validators on rows that hold "", 0 and false.
SpecValues == InitValues /\ [][NextValues]_vars

(***************************************************************************)
(* The whole-schema validator of the DataGrid variant                      *)
(***************************************************************************)
\* An error object of Ajv.  instancePath is the JSON pointer of the value the
\* error is about, as the sequence of its segments: <<>> is the pointer "" of
\* the row itself, <<field>> is "/field".
PathError(instancePath, keyword, message) ==
    [instancePath |-> instancePath, keyword |-> keyword, message |-> message]

RECURSIVE RequiredErrors(_, _)
\* The keyword required of the object schema: one error, about the row, for
\* each listed property the row does not have.
RequiredErrors(required, data) ==
    IF required = <<>> THEN <<>>
    ELSE (IF Get(data, Head(required)) = Undefined
          THEN <<PathError(<<>>, "required",
                           "must have required property '" \o Head(required) \o "'")>>
          ELSE <<>>)
         \o RequiredErrors(Tail(required), data)

RECURSIVE AtPath(_, _)
AtPath(field, items) ==
    IF items = <<>> THEN <<>>
    ELSE <<PathError(<<field>>, Head(items).keyword, Head(items).message)>>
         \o AtPath(field, Tail(items))

RECURSIVE PropertiesErrors(_, _)
\* The keyword properties: the errors of every property the row has, about
\* the value of that property.
PropertiesErrors(properties, data) ==
    IF properties = <<>> THEN <<>>
    ELSE (IF Get(data, Head(properties).field) = Undefined THEN <<>>
          ELSE AtPath(Head(properties).field,
                      AjvAllErrors(Head(properties).schema,
                                   data[Head(properties).field])))
         \o PropertiesErrors(Tail(properties), data)

\* validateSchema(data) with validateSchema = ajv.compile(jsonSchema):
\* validateSchema.errors after the call
ValidateSchemaErrors(schema, data) ==
    LET items == RequiredErrors(RequiredFields(schema), data)
                 \o PropertiesErrors(schema.properties, data)
    IN  IF items = <<>> THEN Null ELSE ErrorsArray(items)

RECURSIVE MapErrors(_)
\* errors.forEach: an error is kept if its instancePath and its message are
\* not empty; its field is instancePath.replace('/', '').
MapErrors(items) ==
    IF items = <<>> THEN <<>>
    ELSE (IF Head(items).instancePath # <<>> /\ Head(items).message # ""
          THEN <<[field |-> Head(items).instancePath[1],
                  message |-> Head(items).message]>>
          ELSE <<>>)
         \o MapErrors(Tail(items))

\* validateRow of the whole-schema variant
WholeSchemaValidateRow(data) ==
    /\ LET errors == ValidateSchemaErrors(jsonSchema, data)
       IN  outcome' = [op |-> "DataGrid.validateRow", data |-> data,
                       threw |-> FALSE,
                       errors |-> IF errors # Null THEN MapErrors(errors.items)
                                  ELSE <<>>]
    /\ UNCHANGED <<jsonSchema, columnDefs, ajv, columns>>
    /\ UNCHANGED gridVars

NextWhole ==
    \E data \in ValueRows : WholeSchemaValidateRow(data)

\* The whole-schema validator on the rows of the per-field validators.
SpecWhole == InitValues /\ [][NextWhole]_vars

(***************************************************************************)
(* The hand-written validator of the DataGrid application                  *)
(***************************************************************************)
\* The age and salary properties of the schema the application declares.
AppFieldSchema(field) ==
    CASE field = "age" -> [type |-> "integer", minimum |-> 18, maximum |-> 100,
                           title |-> "Age"]
      [] field = "salary" -> [type |-> "number", minimum |-> 0,
                              exclusiveMinimum |-> TRUE, title |-> "Salary"]

\* !value
Falsy(value) == value \in {Undefined, Null, EmptyString, Num(0), Bool(FALSE)}

\* /^[^\s@]+@[^\s@]+\.[^\s@]+$/.test(s)
EmailTest(s) ==
    \E i \in 2..Len(s) :
        /\ s[i] = "@"
        /\ \A j \in (1..Len(s)) \ {i} : s[j] \notin {"@", " "}
        /\ \E k \in (i + 2)..(Len(s) - 1) : s[k] = "."

\* /^\d{4}-\d{2}-\d{2}$/.test(s)
DatePatternTest(s) ==
    /\ Len(s) = 10
    /\ s[5] = "-" /\ s[8] = "-"
    /\ \A i \in {1, 2, 3, 4, 6, 7, 9, 10} : s[i] \in Digit

AppDepartments ==
    {Str(<<"E", "n", "g", "i", "n", "e", "e", "r", "i", "n", "g">>),
     Str(<<"M", "a", "r", "k", "e", "t", "i", "n", "g">>),
     Str(<<"S", "a", "l", "e", "s">>),
     Str(<<"H", "R">>),
     Str(<<"F", "i", "n", "a", "n", "c", "e">>)}

AppError(field, message) == <<[field |-> field, message |-> message]>>

AppIdErrors(data) ==
    IF Falsy(Get(data, "id")) THEN AppError("id", "ID is required")
    ELSE IF ~RegexTest(IdPattern, data.id.s)
         THEN AppError("id", "ID must be 2 uppercase letters followed by 4 digits")
         ELSE <<>>

AppNameErrors(data) ==
    IF Falsy(Get(data, "name")) THEN AppError("name", "Name is required")
    ELSE IF Len(data.name.s) < 3
         THEN AppError("name", "Name must be at least 3 characters")
         ELSE IF Len(data.name.s) > 50
              THEN AppError("name", "Name must be at most 50 characters")
              ELSE <<>>

AppEmailErrors(data) ==
    IF Falsy(Get(data, "email")) THEN AppError("email", "Email is required")
    ELSE IF ~EmailTest(data.email.s)
         THEN AppError("email", "Email must be valid")
         ELSE <<>>

\* data.age < 18
AgeTooLow(n) == n < 18

\* data.age > 100
AgeTooHigh(n) == n > 100

\* Number.isInteger(value); the numbers of the model are whole.
IsInteger(value) == value.k = "number"

AppAgeErrors(data) ==
    LET age == Get(data, "age")
    IN  IF age \in {Undefined, Null} THEN AppError("age", "Age is required")
        ELSE IF ~IsInteger(age)
             THEN AppError("age", "Age must be an integer")
             ELSE IF AgeTooLow(age.n)
                  THEN AppError("age", "Age must be at least 18")
                  ELSE IF AgeTooHigh(age.n)
                       THEN AppError("age", "Age must be at most 100")
                       ELSE <<>>

\* A variant that admits the bound: data.salary < 0
SalaryTooLow_Inclusive(n) == n < 0

\* data.salary <= 0
SalaryTooLow(n) == n <= 0

AppSalaryErrors(data) ==
    LET salary == Get(data, "salary")
    IN  IF salary \notin {Undefined, Null} /\ SalaryTooLow(salary.n)
        THEN AppError("salary", "Salary must be greater than 0")
        ELSE <<>>

AppDepartmentErrors(data) ==
    IF Falsy(Get(data, "department"))
    THEN AppError("department", "Department is required")
    ELSE IF data.department \notin AppDepartments
         THEN AppError("department", "Department must be one of the allowed values")
         ELSE <<>>

AppStartDateErrors(data) ==
    LET startDate == Get(data, "startDate")
    IN  IF ~Falsy(startDate) /\ ~DatePatternTest(startDate.s)
        THEN AppError("startDate", "Start date must be in YYYY-MM-DD format")
        ELSE <<>>

\* validateRow of the application: the checks in the order of the code.
AppValidateRow(data) ==
    /\ outcome' = [op |-> "App.validateRow", data |-> data, threw |-> FALSE,
                   errors |-> AppIdErrors(data) \o AppNameErrors(data)
                              \o AppEmailErrors(data) \o AppAgeErrors(data)
                              \o AppSalaryErrors(data)
                              \o AppDepartmentErrors(data)
                              \o AppStartDateErrors(data)]
    /\ UNCHANGED <<jsonSchema, columnDefs, ajv, columns>>
    /\ UNCHANGED gridVars

\* A row of the sample data.
AppBaseRow ==
    [id |-> Str(<<"A", "B", "1", "2", "3", "4">>),
     name |-> Str(<<"J", "o", "h", "n", " ", "D", "o", "e">>),
     email |-> Str(<<"j", "@", "e", "x", ".", "c", "o", "m">>),
     age |-> Num(32),
     salary |-> Num(75000),
     department |-> Str(<<"E", "n", "g", "i", "n", "e", "e", "r", "i", "n", "g">>),
     startDate |-> Str(<<"2", "0", "2", "3", "-", "0", "1", "-", "1", "5">>)]

\* The values an edit puts into a cell of the application's grid.
AppFieldValues(field) ==
    CASE field = "id" -> {Undefined, EmptyString, Str(<<"a", "b", "1", "2">>)}
      [] field = "name" -> {Undefined, Str(<<"A", "l">>), Str([i \in 1..51 |-> "x"])}
      [] field = "email" -> {Undefined, Str(<<"j", "@", "e", "x">>)}
      [] field = "age" -> {Undefined, Null, Str(<<"1", "8">>), Num(17), Num(18),
                           Num(32), Num(100), Num(101)}
      [] field = "salary" -> {Undefined, Null, Num(0 - 1), Num(0), Num(1),
                              Num(75000)}
      [] field = "department" -> {Undefined, Str(<<"O", "p", "s">>)}
      [] field = "startDate" -> {Undefined, Str(<<"2", "0", "2", "3", "-", "1", "-", "5">>)}

\* The sample row with any age and salary and at most one other cell edited.
AppRows ==
    LET aged == {[AppBaseRow EXCEPT !.age = a, !.salary = n] :
                    a \in AppFieldValues("age"), n \in AppFieldValues("salary")}
    IN  aged \cup UNION {{[row EXCEPT ![f] = v] : v \in AppFieldValues(f), row \in aged}
                         : f \in {"id", "name", "email", "department", "startDate"}}

\* Schemas of one bounded integer field for the validator of the grid.
BoundSchemas ==
    {[properties |-> <<[field |-> "age", schema |-> RowFieldSchema("age")]>>],
     [properties |-> <<[field |-> "age", schema |-> RowFieldSchema("age")]>>,
      required |-> <<"age">>]}

BoundRows == {[age |-> Num(n)] : n \in {17, 18, 100, 101}}

InitBounds ==
    /\ jsonSchema \in BoundSchemas
    /\ columnDefs = Undefined
    /\ ajv = EmptyAjv
    /\ outcome = NoCall
    /\ columns = NoCall
    /\ NoRows

NextBounds ==
    \/ \E data \in AppRows : AppValidateRow(data)
    \/ \E data \in BoundRows : ValidateRow(data)

\* The hand-written validator next to the validator of the grid, on numbers
\* at and around the bounds of their fields.
SpecBounds == InitBounds /\ [][NextBounds]_vars

(***************************************************************************)
(* Column generation                                                       *)
(***************************************************************************)
UpperSeq == <<"A", "B", "C", "D", "E", "F", "G", "H", "I", "J", "K", "L", "M",
              "N", "O", "P", "Q", "R", "S", "T", "U", "V", "W", "X", "Y", "Z">>
LowerSeq == <<"a", "b", "c", "d", "e", "f", "g", "h", "i", "j", "k", "l", "m",
              "n", "o", "p", "q", "r", "s", "t", "u", "v", "w", "x", "y", "z">>

\* String.prototype.toLowerCase on a sequence of characters
ToLowerCase(chars) ==
    [i \in 1..Len(chars) |->
        IF chars[i] \in Upper
        THEN LowerSeq[CHOOSE j \in 1..26 : UpperSeq[j] = chars[i]]
        ELSE chars[i]]

\* String.prototype.includes on sequences of characters
StringIncludes(chars, sub) ==
    \E i \in 0..(Len(chars) - Len(sub)) : SubSeq(chars, i + 1, i + Len(sub)) = sub

\* The characters of the field names of the model.
Chars(field) ==
    CASE field = "id" -> <<"i", "d">>
      [] field = "dept" -> <<"d", "e", "p", "t">>
      [] field = "unitPrice" -> <<"u", "n", "i", "t", "P", "r", "i", "c", "e">>
      [] field = "tag" -> <<"t", "a", "g">>
      [] field = "start" -> <<"s", "t", "a", "r", "t">>
      [] field = "when" -> <<"w", "h", "e", "n">>
      [] field = "active" -> <<"a", "c", "t", "i", "v", "e">>
      [] field = "salary" -> <<"s", "a", "l", "a", "r", "y">>
      [] field = "costCode" -> <<"c", "o", "s", "t", "C", "o", "d", "e">>
      [] field = "misc" -> <<"m", "i", "s", "c">>
      [] field = "age" -> <<"a", "g", "e">>
      [] field = "note" -> <<"n", "o", "t", "e">>

\* The field schemas columns are generated from.
ColFieldSchema(field) ==
    CASE field = "id" ->
            [type |-> "string", pattern |-> IdPattern, title |-> "ID"]
      [] field = "dept" ->
            [type |-> "string", title |-> "Department",
             enum |-> <<Str(<<"E", "n", "g">>), Str(<<"S", "a", "l", "e", "s">>)>>]
      [] field = "unitPrice" ->
            [type |-> "integer", enum |-> <<Num(1), Num(2)>>]
      [] field = "tag" ->
            [enum |-> <<Str(<<"a">>), Str(<<"b">>)>>, hidden |-> TRUE,
             width |-> 80]
      [] field = "start" -> [type |-> "string", format |-> "date"]
      [] field = "when" -> [type |-> "string", format |-> "date-time"]
      [] field = "active" -> [type |-> "boolean", title |-> "Active"]
      [] field = "salary" ->
            [type |-> "number", minimum |-> 0, hidden |-> TRUE, width |-> 120]
      [] field = "costCode" -> [type |-> "string"]
      [] field = "misc" ->
            [type |-> "object", hidden |-> FALSE, width |-> 0]
      [] field = "age" ->
            [type |-> "integer", minimum |-> 18, maximum |-> 100]

ColFieldNames == {"id", "dept", "unitPrice", "tag", "start", "when", "active",
                 "salary", "costCode", "misc", "age"}

ColSchemas ==
    SchemasOver(ColFieldNames, [f \in ColFieldNames |-> ColFieldSchema(f)])

\* JavaScript truthiness of a boolean, a number, a string and an object-or-
\* undefined
TruthyBool(b) == b
TruthyNum(n) == n # 0
TruthyStr(str) == str # ""
TruthyObj(v) == v # Undefined /\ v # Null

\* { ...a, ...b }
Spread(a, b) ==
    [key \in DOMAIN a \cup DOMAIN b |-> IF key \in DOMAIN b THEN b[key] ELSE a[key]]

CurrencyWords == {<<"p", "r", "i", "c", "e">>, <<"s", "a", "l", "a", "r", "y">>,
                  <<"c", "o", "s", "t">>, <<"a", "m", "o", "u", "n", "t">>}

\* A variant that looks for the words in the field name as it is written.
LooksMonetary_CaseSensitive(field) ==
    \E word \in CurrencyWords : StringIncludes(Chars(field), word)

\* field.toLowerCase().includes("price") || ... "salary" ... "cost" ... "amount"
LooksMonetary(field) ==
    \E word \in CurrencyWords : StringIncludes(ToLowerCase(Chars(field)), word)

\* A variant that gives every schema with an enum the select editor, before
\* it looks at the type.
TypeSpecific_EnumFirst(field, schema, colDef) ==
    LET type == IF "type" \in DOMAIN schema THEN schema.type ELSE "undefined"
    IN  IF "enum" \in DOMAIN schema
        THEN Spread(colDef, [cellEditor |-> "agSelectCellEditor",
                             cellEditorParams |-> [values |-> schema.enum]])
        ELSE CASE type \in {"number", "integer"} ->
                    Spread(Spread(colDef, [cellEditor |-> "agNumberCellEditor"]),
                           IF LooksMonetary(field)
                           THEN [valueFormatter |-> "currency"]
                           ELSE [f \in {} |-> Null])
              [] type = "string" ->
                    IF "format" \in DOMAIN schema
                       /\ schema.format \in {"date", "date-time"}
                    THEN Spread(colDef, [cellEditor |-> "agDateStringCellEditor"])
                    ELSE colDef
              [] type = "boolean" ->
                    Spread(colDef, [cellEditor |-> "agCheckboxCellEditor",
                                    cellRenderer |-> "agCheckboxCellRenderer",
                                    suppressKeyboardEvent |-> "space"])
              [] OTHER -> colDef

\* The switch on schema.type of getDefaultColDef
TypeSpecific(field, schema, colDef) ==
    LET type == IF "type" \in DOMAIN schema THEN schema.type ELSE "undefined"
    IN  CASE type \in {"number", "integer"} ->
                Spread(Spread(colDef, [cellEditor |-> "agNumberCellEditor"]),
                       IF LooksMonetary(field)
                       THEN [valueFormatter |-> "currency"]
                       ELSE [f \in {} |-> Null])
          [] type = "string" ->
                IF "enum" \in DOMAIN schema
                THEN Spread(colDef, [cellEditor |-> "agSelectCellEditor",
                                     cellEditorParams |-> [values |-> schema.enum]])
                ELSE IF "format" \in DOMAIN schema
                        /\ schema.format \in {"date", "date-time"}
                THEN Spread(colDef, [cellEditor |-> "agDateStringCellEditor"])
                ELSE colDef
          [] type = "boolean" ->
                Spread(colDef, [cellEditor |-> "agCheckboxCellEditor",
                                cellRenderer |-> "agCheckboxCellRenderer",
                                suppressKeyboardEvent |-> "space"])
          [] OTHER -> colDef

\* A variant that marks the required fields of a recognised type only.
RequiredHeader_TypedOnly(field, colDef, fullSchema) ==
    LET schema == FieldSchemaOf(fullSchema, field)
    IN  IF /\ Includes(RequiredFields(fullSchema), field)
           /\ "type" \in DOMAIN schema
           /\ schema.type \in {"string", "number", "integer", "boolean"}
        THEN Spread(colDef,
                    [headerName |->
                        (IF "headerName" \in DOMAIN colDef
                            /\ TruthyStr(colDef.headerName)
                         THEN colDef.headerName ELSE field) \o "*"])
        ELSE colDef

\* `${colDef.headerName || field}*` when the field is required
RequiredHeader(field, colDef, fullSchema) ==
    IF Includes(RequiredFields(fullSchema), field)
    THEN Spread(colDef,
                [headerName |->
                    (IF "headerName" \in DOMAIN colDef /\ TruthyStr(colDef.headerName)
                     THEN colDef.headerName ELSE field) \o "*"])
    ELSE colDef

\* A variant that hides a column whenever its schema has a hidden key.
getDefaultColDef_HiddenKey(field, schema, baseColDef, fullSchema) ==
    LET typed == TypeSpecific(field, schema, baseColDef)
        hidden == IF "hidden" \in DOMAIN schema
                  THEN Spread(typed, [hide |-> TRUE]) ELSE typed
        sized == IF "width" \in DOMAIN schema /\ TruthyNum(schema.width)
                 THEN Spread(hidden, [width |-> schema.width]) ELSE hidden
    IN  RequiredHeader(field, sized, fullSchema)

\* getDefaultColDef(field, schema, baseColDef, fullSchema)
getDefaultColDef(field, schema, baseColDef, fullSchema) ==
    LET typed == TypeSpecific(field, schema, baseColDef)
        hidden == IF "hidden" \in DOMAIN schema /\ TruthyBool(schema.hidden)
                  THEN Spread(typed, [hide |-> TRUE]) ELSE typed
        sized == IF "width" \in DOMAIN schema /\ TruthyNum(schema.width)
                 THEN Spread(hidden, [width |-> schema.width]) ELSE hidden
    IN  RequiredHeader(field, sized, fullSchema)

\* (schema as any).title || field
TitleOrField(field, schema) ==
    IF "title" \in DOMAIN schema /\ TruthyStr(schema.title) THEN schema.title ELSE field

\* A variant that leaves out the properties marked hidden.
ColumnEntries_SkipHidden(properties) ==
    SelectSeq(properties,
              LAMBDA e : ~("hidden" \in DOMAIN e.schema /\ e.schema.hidden))

\* The entries of Object.entries(properties) that are mapped to columns.
ColumnEntries(properties) == properties

\* The base column definition SchemaGrid builds for a property
BaseColDef(field, schema) ==
    [field |-> field, editable |-> TRUE,
     headerName |-> TitleOrField(field, schema), cellStyle |-> "getCellStyle"]

\* A variant that generates the columns whether or not columnDefs is given.
generatedColumnDefs_IgnoreProp ==
    LET entries == ColumnEntries(jsonSchema.properties)
    IN  [i \in 1..Len(entries) |->
            getDefaultColDef(entries[i].field, entries[i].schema,
                             BaseColDef(entries[i].field, entries[i].schema),
                             jsonSchema)]

\* The useMemo of SchemaGrid: the columnDefs prop, else one column per property.
generatedColumnDefs ==
    IF TruthyObj(columnDefs) THEN columnDefs.items
    ELSE LET entries == ColumnEntries(jsonSchema.properties)
         IN  [i \in 1..Len(entries) |->
                getDefaultColDef(entries[i].field, entries[i].schema,
                                 BaseColDef(entries[i].field, entries[i].schema),
                                 jsonSchema)]

\* generateColumnsFromSchema(schema) of lib/utils
generateColumnsFromSchema(schema) ==
    LET entries == ColumnEntries(schema.properties)
    IN  [i \in 1..Len(entries) |->
            [field |-> entries[i].field,
             headerName |-> TitleOrField(entries[i].field, entries[i].schema)]]

\* SchemaGrid renders: the memo is computed from the props.
RenderColumns ==
    /\ columns' = [op |-> "generatedColumnDefs", cols |-> generatedColumnDefs]
    /\ UNCHANGED <<jsonSchema, columnDefs, ajv, outcome>>
    /\ UNCHANGED gridVars

GenerateColumnsFromSchema ==
    /\ columns' = [op |-> "generateColumnsFromSchema",
                   cols |-> generateColumnsFromSchema(jsonSchema)]
    /\ UNCHANGED <<jsonSchema, columnDefs, ajv, outcome>>
    /\ UNCHANGED gridVars

\* The base column definitions a caller of the exported getDefaultColDef passes.
CallerBaseColDefs(field) ==
    {[field |-> field], [field |-> field, headerName |-> "Custom"]}

\* A direct call of the exported getDefaultColDef for a property of the schema.
GetDefaultColDef(i, baseColDef) ==
    LET entry == jsonSchema.properties[i]
    IN  /\ columns' = [op |-> "getDefaultColDef", field |-> entry.field,
                       base |-> baseColDef,
                       cols |-> <<getDefaultColDef(entry.field, entry.schema,
                                                   baseColDef, jsonSchema)>>]
        /\ UNCHANGED <<jsonSchema, columnDefs, ajv, outcome>>
        /\ UNCHANGED gridVars

\* A columnDefs prop of the caller's own
CustomColumnDefs ==
    [k |-> "array", items |-> <<[field |-> "id", headerName |-> "Identifier"]>>]

InitCols ==
    /\ jsonSchema \in ColSchemas
    /\ columnDefs \in {Undefined, CustomColumnDefs}
    /\ ajv = EmptyAjv
    /\ outcome = NoCall
    /\ columns = NoCall
    /\ NoRows

NextCols ==
    \/ RenderColumns
    \/ GenerateColumnsFromSchema
    \/ \E i \in 1..Len(jsonSchema.properties) :
          \E baseColDef \in CallerBaseColDefs(jsonSchema.properties[i].field) :
             GetDefaultColDef(i, baseColDef)

SpecCols == InitCols /\ [][NextCols]_vars

(***************************************************************************)
(* The grid: row identities, the validation map, edits and renders         *)
(***************************************************************************)
\* idField = "id"
idField == "id"

RECURSIVE JoinChars(_)
\* The string a sequence of characters spells
JoinChars(chars) ==
    IF chars = <<>> THEN "" ELSE Head(chars) \o JoinChars(Tail(chars))

\* String(idValue) of a value that is neither undefined nor null
StringOf(v) ==
    CASE v.k = "string" -> JoinChars(v.s)
      [] v.k = "number" -> ToString(v.n)
      [] v.k = "boolean" -> IF v.b THEN "true" ELSE "false"

\* The values of `generated-id-${Math.random().toString(36).substring(2, 9)}`
GeneratedIds == {"generated-id-a", "generated-id-b"}

\* A variant that makes a new identity on every lookup.
generateRowId_Always(row, idMap, random) ==
    [id |-> random,
     idMap |-> [r \in DOMAIN idMap \cup {row} |->
                    IF r = row THEN random ELSE idMap[r]]]

\* generateRowId(row): the identity stored for the row object, made on the
\* first lookup.  random is what Math.random yields if it is called.
generateRowId(row, idMap, random) ==
    IF row \in DOMAIN idMap
    THEN [id |-> idMap[row], idMap |-> idMap]
    ELSE [id |-> random,
          idMap |-> [r \in DOMAIN idMap \cup {row} |->
                        IF r = row THEN random ELSE idMap[r]]]

\* getRowId(row) for the row object at a position of rowData with given
\* content: the identity and rowIdMap after the call
getRowId(row, data, idMap, random) ==
    LET idValue == Get(data, idField)
    IN  IF idValue # Undefined /\ idValue # Null
        THEN [id |-> StringOf(idValue), idMap |-> idMap]
        ELSE generateRowId(row, idMap, random)

\* A variant that appends the new errors to the ones the map holds.
SpreadPut_Append(prev, rowId, errors) ==
    [id \in DOMAIN prev \cup {rowId} |->
        IF id = rowId
        THEN (IF rowId \in DOMAIN prev THEN prev[rowId] ELSE <<>>) \o errors
        ELSE prev[id]]

\* { ...prev, [rowId]: errors }
SpreadPut(prev, rowId, errors) == WithEntry(prev, rowId, errors)

\* A variant that keeps no entry for a row without errors.
AssignEntry_SkipClean(errors, rowId, rowErrors) ==
    IF rowErrors = <<>> THEN errors
    ELSE [id \in DOMAIN errors \cup {rowId} |->
            IF id = rowId THEN rowErrors ELSE errors[id]]

\* A variant that keeps the entry an earlier row of the same identity made.
AssignEntry_FirstWins(errors, rowId, rowErrors) ==
    IF rowId \in DOMAIN errors THEN errors
    ELSE [id \in DOMAIN errors \cup {rowId} |->
            IF id = rowId THEN rowErrors ELSE errors[id]]

\* errors[rowId] = validateRow(row)
AssignEntry(errors, rowId, rowErrors) ==
    [id \in DOMAIN errors \cup {rowId} |->
        IF id = rowId THEN rowErrors ELSE errors[id]]

RECURSIVE ValidateAll(_, _, _, _)
\* rowData.forEach of the effect, from position k on.  st is the loop's
\* state: the errors map built so far, rowIdMap, the Ajv instance, the
\* identities found, and whether validateRow threw (which ends the effect).
ValidateAll(rows, k, randoms, st) ==
    IF k > Len(rows) \/ st.threw THEN st
    ELSE LET found == getRowId(k, rows[k], st.idMap, randoms[k])
             res == RunValidation(jsonSchema, rows[k], st.ajv)
         IN  ValidateAll(rows, k + 1, randoms,
                [errors |-> IF res.threw THEN st.errors
                            ELSE AssignEntry(st.errors, found.id, res.errors),
                 idMap |-> found.idMap,
                 ajv |-> res.ajv,
                 ids |-> Append(st.ids, found.id),
                 threw |-> res.threw])

\* The effect threw: without an error boundary React unmounts the component.
Unmounted == handled.op = "effect" /\ handled.threw

\* Object.values(errors).every((rowErrors) => rowErrors.length === 0)
EveryRowClean(errors) == \A rowId \in DOMAIN errors : errors[rowId] = <<>>

\* onValidationError(errors) as the parent handles it.  "flag" is the handler
\* of the demo application, which keeps the flag isDataValid: React renders
\* the parent again when the flag changed.  "store" keeps the object it
\* receives: every call passes a new object, so every call schedules a render.
Notify(p, errors) ==
    CASE p.onValidationError = "flag" ->
            [p EXCEPT !.state = EveryRowClean(errors),
                      !.renderPending = (p.renderPending
                                         \/ p.state # EveryRowClean(errors))]
      [] p.onValidationError = "store" ->
            [p EXCEPT !.state = errors, !.renderPending = TRUE]
      [] OTHER -> p

\* The useEffect that validates all rows.  It runs after the first render
\* and after a render that changed one of its dependencies.
ValidateAllRows(randoms) ==
    /\ effectPending
    /\ ~Unmounted
    /\ \E st \in {ValidateAll(rowData, 1, randoms,
                    [errors |-> EmptyMap, idMap |-> rowIdMap, ajv |-> ajv,
                     ids |-> <<>>, threw |-> FALSE])} :
           /\ rowIdMap' = st.idMap
           /\ ajv' = st.ajv
           /\ handled' = [op |-> "effect", threw |-> st.threw, ids |-> st.ids]
           /\ validationErrors' = IF st.threw THEN validationErrors ELSE st.errors
           /\ reported' = IF st.threw \/ parent.onValidationError = "none"
                          THEN reported ELSE st.errors
           /\ parent' = IF st.threw THEN parent ELSE Notify(parent, st.errors)
    /\ effectPending' = FALSE
    /\ UNCHANGED <<jsonSchema, columnDefs, outcome, columns, rowData, rendered,
                   memoized, edits>>

\* An entry of the map, for the record of an edit
EntryOf(errorsMap, rowId) ==
    IF rowId \in DOMAIN errorsMap
    THEN [held |-> TRUE, errors |-> errorsMap[rowId]] ELSE [held |-> FALSE]

\* A variant that tells the parent of the edit only when the row has errors.
HandlerCalls_OnErrorsOnly(p, rowId, errors, errorsMap, params) ==
    <<[fn |-> "setValidationErrors", arg |-> [rowId |-> rowId, errors |-> errors]]>>
    \o (IF p.onValidationError # "none"
        THEN <<[fn |-> "onValidationError", arg |-> errorsMap]>> ELSE <<>>)
    \o (IF p.onCellValueChanged /\ errors # <<>>
        THEN <<[fn |-> "onCellValueChanged", arg |-> params]>> ELSE <<>>)

\* The calls handleCellValueChanged makes, in the order of its statements.
HandlerCalls(p, rowId, errors, errorsMap, params) ==
    <<[fn |-> "setValidationErrors", arg |-> [rowId |-> rowId, errors |-> errors]]>>
    \o (IF p.onValidationError # "none"
        THEN <<[fn |-> "onValidationError", arg |-> errorsMap]>> ELSE <<>>)
    \o (IF p.onCellValueChanged
        THEN <<[fn |-> "onCellValueChanged", arg |-> params]>> ELSE <<>>)

\* handleCellValueChanged(params): the grid has written the new value into the
\* row object and passes it as params.data.  The state update is queued on
\* the state React holds, the map for onValidationError is built from the
\* validationErrors of the render the handler belongs to.  React runs a
\* scheduled effect before it lets an input event through.
HandleCellValueChanged(row, field, value, random) ==
    /\ ~Unmounted
    /\ ~effectPending
    /\ ~parent.renderPending
    /\ edits < MaxEdits
    /\ LET data == [key \in DOMAIN rowData[row] \cup {field} |->
                        IF key = field THEN value ELSE rowData[row][key]]
           params == [data |-> data, field |-> field, newValue |-> value]
           found == getRowId(row, data, rowIdMap, random)
           res == RunValidation(jsonSchema, data, ajv)
           errorsMap == SpreadPut(rendered, found.id, res.errors)
       IN  /\ rowData' = [rowData EXCEPT ![row] = data]
           /\ rowIdMap' = found.idMap
           /\ ajv' = res.ajv
           /\ handled' = [op |-> "edit", row |-> row, field |-> field,
                          rowId |-> found.id, threw |-> res.threw,
                          replaced |-> EntryOf(validationErrors, found.id),
                          params |-> params,
                          calls |-> IF res.threw THEN <<>>
                                    ELSE HandlerCalls(parent, found.id, res.errors,
                                                      errorsMap, params)]
           /\ validationErrors' =
                 IF res.threw THEN validationErrors
                 ELSE SpreadPut(validationErrors, found.id, res.errors)
           /\ reported' =
                 IF res.threw \/ parent.onValidationError = "none" THEN reported
                 ELSE errorsMap
           /\ parent' = IF res.threw THEN parent ELSE Notify(parent, errorsMap)
    /\ edits' = edits + 1
    /\ UNCHANGED <<jsonSchema, columnDefs, outcome, columns, rendered, memoized,
                   effectPending>>

\* SchemaGrid renders again: its closures see the state React holds.  The
\* memoized column definitions, and with them the cellStyle closures, are
\* made anew only if the parent passed a new jsonSchema object; the effect
\* is scheduled then too, since validateRow depends on jsonSchema.
Render(newSchema) ==
    /\ ~Unmounted
    /\ rendered' = validationErrors
    /\ memoized' = IF newSchema THEN validationErrors ELSE memoized
    /\ effectPending' = (effectPending \/ newSchema)
    /\ UNCHANGED <<jsonSchema, columnDefs, ajv, outcome, columns, rowData,
                   validationErrors, rowIdMap, reported, handled, edits, parent>>

\* The parent renders again after its state changed, and SchemaGrid with it.
\* A parent that makes its jsonSchema object and its handler anew on each
\* render changes validateRow and onValidationError, two dependencies of the
\* effect, which is scheduled again.
ParentRender ==
    /\ ~Unmounted
    /\ parent.renderPending
    /\ parent' = [parent EXCEPT !.renderPending = FALSE]
    /\ rendered' = validationErrors
    /\ memoized' = IF parent.fresh THEN validationErrors ELSE memoized
    /\ effectPending' = (effectPending \/ parent.fresh)
    /\ UNCHANGED <<jsonSchema, columnDefs, ajv, outcome, columns, rowData,
                   validationErrors, rowIdMap, reported, handled, edits>>

\* The errors of a row that name a field, as getCellStyle and
\* getTooltipContent look them up; Null when the map has no entry
FieldErrors(errorsMap, rowId, field) ==
    IF rowId \notin DOMAIN errorsMap THEN Null
    ELSE [k |-> "array", items |-> SelectErrors(errorsMap[rowId], field)]

\* getCellStyle(rowData, field) of a render that sees errorsMap
getCellStyle(errorsMap, rowId, field) ==
    LET fieldErrors == FieldErrors(errorsMap, rowId, field)
    IN  IF fieldErrors = Null THEN Null
        ELSE IF Len(fieldErrors.items) > 0
        THEN [backgroundColor |-> "#ffdddd"]
        ELSE [backgroundColor |-> "transparent"]

RECURSIVE JoinMessages(_)
\* fieldErrors.map((err) => err.message).join(", ")
JoinMessages(errs) ==
    IF Len(errs) = 1 THEN Head(errs).message
    ELSE Head(errs).message \o ", " \o JoinMessages(Tail(errs))

\* getTooltipContent(params) of a render that sees errorsMap
getTooltipContent(errorsMap, rowId, field) ==
    LET fieldErrors == FieldErrors(errorsMap, rowId, field)
    IN  IF fieldErrors = Null THEN Null
        ELSE IF Len(fieldErrors.items) = 0 THEN Null
        ELSE Str(JoinMessages(fieldErrors.items))

\* cellStyle: (params) => getCellStyle(params.data, field) of a generated
\* column: the closure belongs to the render that made the column definitions.
CellStyle(rowId, field) == getCellStyle(memoized, rowId, field)

\* tooltipValueGetter: getTooltipContent of the last render
TooltipValue(rowId, field) == getTooltipContent(rendered, rowId, field)

\* The schemas of the grid: the id with a constrained field, and the id with
\* a field that carries a display keyword.
GridSchemas ==
    {[properties |-> <<[field |-> "id", schema |-> RowFieldSchema("id")],
                       [field |-> "age", schema |-> RowFieldSchema("age")]>>,
      required |-> <<"id">>],
     [properties |-> <<[field |-> "id", schema |-> RowFieldSchema("id")],
                       [field |-> "note", schema |-> RowFieldSchema("note")]>>,
      required |-> <<"id">>]}

\* The rows a caller supplies
SuppliedRows ==
    {[id |-> Str(<<"A", "B", "1", "2", "3", "4">>), age |-> Num(18)],
     [id |-> Str(<<"A", "B", "1", "2", "3", "4">>), age |-> Num(15)],
     [age |-> Num(18)],
     [id |-> Str(<<"a", "b", "1", "2">>)],
     [id |-> Str(<<"A", "B", "1", "2", "3", "4">>),
      note |-> Str(<<"o", "k">>)]}

\* The values an edit writes into a cell
EditValues(field) ==
    CASE field = "id" -> {Null}
      [] field = "age" -> {Num(15), Num(18)}
      [] field = "note" -> {Str(<<"o", "k">>)}

RowSeqsUpTo(rows, n) == UNION {[1..m -> rows] : m \in 0..n}

\* After the first render: no row validated, the effect scheduled.
InitGrid ==
    /\ jsonSchema \in GridSchemas
    /\ columnDefs = Undefined
    /\ ajv = EmptyAjv
    /\ outcome = NoCall
    /\ columns = NoCall
    /\ rowData \in RowSeqsUpTo(
          {row \in SuppliedRows :
              DOMAIN row \subseteq {jsonSchema.properties[i].field :
                                       i \in 1..Len(jsonSchema.properties)}},
          MaxRows)
    /\ validationErrors = EmptyMap
    /\ rendered = EmptyMap
    /\ memoized = EmptyMap
    /\ rowIdMap = EmptyMap
    /\ reported = NoCall
    /\ handled = NoCall
    /\ effectPending = TRUE
    /\ edits = 0
    /\ parent = StableParent

NextGrid ==
    \/ \E randoms \in [1..Len(rowData) -> GeneratedIds] : ValidateAllRows(randoms)
    \/ \E row \in 1..Len(rowData) :
          \E i \in 1..Len(jsonSchema.properties) :
             \E value \in EditValues(jsonSchema.properties[i].field) :
                \E random \in GeneratedIds :
                   HandleCellValueChanged(row, jsonSchema.properties[i].field,
                                          value, random)
    \/ Render(FALSE)

\* The grid under a parent that passes the same jsonSchema object on every
\* render.
SpecGrid == InitGrid /\ [][NextGrid]_vars

\* Parents that pass or omit each of the two callbacks.
EditParents ==
    {[StableParent EXCEPT !.onValidationError = handler,
                          !.onCellValueChanged = passed] :
        handler \in {"none", "log"}, passed \in BOOLEAN}

\* The grid of one row at most, under each of these parents.
InitEdit ==
    /\ jsonSchema \in GridSchemas
    /\ columnDefs = Undefined
    /\ ajv = EmptyAjv
    /\ outcome = NoCall
    /\ columns = NoCall
    /\ rowData \in RowSeqsUpTo(
          {row \in SuppliedRows :
              DOMAIN row \subseteq {jsonSchema.properties[i].field :
                                       i \in 1..Len(jsonSchema.properties)}},
          1)
    /\ validationErrors = EmptyMap
    /\ rendered = EmptyMap
    /\ memoized = EmptyMap
    /\ rowIdMap = EmptyMap
    /\ reported = NoCall
    /\ handled = NoCall
    /\ effectPending = TRUE
    /\ edits = 0
    /\ parent \in EditParents

\* Cell edits under parents that pass or omit the callbacks.
SpecEdit == InitEdit /\ [][NextGrid]_vars

\* The parent of the demo application: it keeps the flag isDataValid, set by
\* its onValidationError handler, and makes its jsonSchema object and the
\* handler anew on each render.
DemoParent ==
    [onValidationError |-> "flag", onCellValueChanged |-> FALSE, fresh |-> TRUE,
     state |-> TRUE, renderPending |-> FALSE]

\* A parent whose onValidationError handler keeps the map it receives in its
\* state, with props that are the same objects on every render or new ones.
StoringParent(fresh) ==
    [onValidationError |-> "store", onCellValueChanged |-> FALSE, fresh |-> fresh,
     state |-> NoCall, renderPending |-> FALSE]

\* After the first render under one of these parents.
InitLoop ==
    /\ jsonSchema \in GridSchemas
    /\ columnDefs = Undefined
    /\ ajv = EmptyAjv
    /\ outcome = NoCall
    /\ columns = NoCall
    /\ rowData \in RowSeqsUpTo(
          {row \in SuppliedRows :
              DOMAIN row \subseteq {jsonSchema.properties[i].field :
                                       i \in 1..Len(jsonSchema.properties)}},
          MaxRows)
    /\ validationErrors = EmptyMap
    /\ rendered = EmptyMap
    /\ memoized = EmptyMap
    /\ rowIdMap = EmptyMap
    /\ reported = NoCall
    /\ handled = NoCall
    /\ effectPending = TRUE
    /\ edits = 0
    /\ parent \in {DemoParent, StoringParent(FALSE), StoringParent(TRUE)}

NextLoop ==
    \/ \E randoms \in [1..Len(rowData) -> GeneratedIds] : ValidateAllRows(randoms)
    \/ ParentRender
    \/ Render(FALSE)

\* The effect and the renders it causes, after the rows and the schema were
\* passed.
SpecLoop == InitLoop /\ [][NextLoop]_vars

\* React runs an effect it has scheduled and renders a component whose state
\* it has changed.
SpecLoopFair ==
    /\ SpecLoop
    /\ WF_vars(\E randoms \in [1..Len(rowData) -> GeneratedIds] :
                  ValidateAllRows(randoms))
    /\ WF_vars(ParentRender)

\* The schema of the demo application, cut down to the fields id and age.
DemoSchema ==
    [properties |-> <<[field |-> "id", schema |-> RowFieldSchema("id")],
                      [field |-> "age", schema |-> RowFieldSchema("age")]>>,
     required |-> <<"id", "age">>]

\* The sample rows of the demo application: valid, each with an id of its own.
DemoSample ==
    <<[id |-> Str(<<"A", "B", "1", "2", "3", "4">>), age |-> Num(32)],
      [id |-> Str(<<"C", "D", "5", "6", "7", "8">>), age |-> Num(28)],
      [id |-> Str(<<"E", "F", "9", "0", "1", "2">>), age |-> Num(45)]>>

\* The values a user of the demo types into a cell: an id that is malformed
\* and one that is well-formed and new, an age below the minimum and one
\* within the bounds.
DemoEditValues(field) ==
    CASE field = "id" -> {Str(<<"a", "b", "1", "2">>),
                          Str(<<"G", "H", "3", "4", "5", "6">>)}
      [] field = "age" -> {Num(15), Num(18)}

\* The demo application after its first render.
InitDemo ==
    /\ jsonSchema = DemoSchema
    /\ columnDefs = Undefined
    /\ ajv = EmptyAjv
    /\ outcome = NoCall
    /\ columns = NoCall
    /\ rowData \in {SubSeq(DemoSample, 1, n) : n \in 1..MaxRows} \cap Seq(
          {DemoSample[i] : i \in 1..Len(DemoSample)})
    /\ validationErrors = EmptyMap
    /\ rendered = EmptyMap
    /\ memoized = EmptyMap
    /\ rowIdMap = EmptyMap
    /\ reported = NoCall
    /\ handled = NoCall
    /\ effectPending = TRUE
    /\ edits = 0
    /\ parent = DemoParent

\* The user edits a cell of the grid as it was rendered last, one cell at a
\* time: the handler's closure sees the state React holds.
NextDemo ==
    \/ \E randoms \in [1..Len(rowData) -> GeneratedIds] : ValidateAllRows(randoms)
    \/ /\ rendered = validationErrors
       /\ \E row \in 1..Len(rowData) :
             \E field \in {"id", "age"} :
                \E value \in DemoEditValues(field) :
                   \E random \in GeneratedIds :
                      HandleCellValueChanged(row, field, value, random)
    \/ Render(FALSE)
    \/ ParentRender

\* The demo application: SchemaGrid under the parent that keeps isDataValid.
SpecDemo == InitDemo /\ [][NextDemo]_vars

\* validateRow called on the rows of the grid, next to the effect, one of the
\* callers that store its result.
NextValidate ==
    \/ \E row \in 1..Len(rowData) : ValidateRow(rowData[row])
    \/ \E randoms \in [1..Len(rowData) -> GeneratedIds] : ValidateAllRows(randoms)

SpecValidate == InitGrid /\ [][NextValidate]_vars

(***************************************************************************)
(* Properties of row validation                                            *)
(***************************************************************************)
Validated == outcome.op \in {"validateRow", "validateDataWithSchema"}

Returned == Validated /\ ~outcome.threw

DeclaredFields == {jsonSchema.properties[i].field : i \in 1..Len(jsonSchema.properties)}

IsRequired(field) == Includes(RequiredFields(jsonSchema), field)

\* The value the validated row holds under a field
ValueOf(field) == Get(outcome.data, field)

\* The errors of the result that name a field
ErrorsOf(field) == SelectErrors(outcome.errors, field)

RequiredError(field) == [field |-> field, message |-> field \o " is required"]

ConstraintKeywords == {"type", "enum", "minimum", "maximum", "minLength",
                       "maxLength", "pattern", "format"}

\* JSON Schema: whether a value satisfies one constraint of a field schema
Satisfies(keyword, fs, v) ==
    CASE keyword = "type" -> IsOfType(fs.type, v)
      [] keyword = "enum" -> \E i \in 1..Len(fs.enum) : fs.enum[i] = v
      [] keyword = "minimum" -> v.k = "number" => v.n >= fs.minimum
      [] keyword = "maximum" -> v.k = "number" => v.n <= fs.maximum
      [] keyword = "minLength" -> v.k = "string" => Len(v.s) >= fs.minLength
      [] keyword = "maxLength" -> v.k = "string" => Len(v.s) <= fs.maxLength
      [] keyword = "pattern" -> v.k = "string" => RegexTest(fs.pattern, v.s)
      [] keyword = "format" -> v.k = "string" => FormatTest(fs.format, v.s)

\* The constraints of a field that the row's value violates
Violated(field) ==
    LET fs == FieldSchemaOf(jsonSchema, field)
    IN  {keyword \in DOMAIN fs \cap ConstraintKeywords :
            ~Satisfies(keyword, fs, ValueOf(field))}

\* The field is required and absent, null or ""
MissingRequired(field) == IsRequired(field) /\ IsMissing(ValueOf(field))

\* The field is optional and absent or null
UnsetOptional(field) ==
    ~IsRequired(field) /\ (ValueOf(field) = Undefined \/ ValueOf(field) = Null)

\* The field holds a value that is checked against its constraints
Present(field) == ~MissingRequired(field) /\ ~UnsetOptional(field)

\* C1: when a required field is absent, null or "" in the row, validateRow
\* returns exactly one error for that field, "<field> is required", and no
\* constraint error for it.
C1_RequiredMissingOneError ==
    Validated =>
        \A field \in DeclaredFields :
            MissingRequired(field) =>
                /\ ~outcome.threw
                /\ ErrorsOf(field) = <<RequiredError(field)>>

\* C2: when every required field is present and non-empty and every present
\* value satisfies all constraints of its field, validateRow returns the
\* empty sequence.
C2_ValidRowNoErrors ==
    Validated =>
        ((\A field \in DeclaredFields :
              /\ ~MissingRequired(field)
              /\ Present(field) => Violated(field) = {})
         => ~outcome.threw /\ outcome.errors = <<>>)

\* C3: a field that is not required and whose value is absent or null
\* contributes no error to the result, whatever constraints it declares.
C3_UnsetOptionalNoError ==
    Validated =>
        \A field \in DeclaredFields :
            UnsetOptional(field) => ErrorsOf(field) = <<>>

\* A result with errors in which a constrained optional field is unset
C3_Witness ==
    /\ outcome.op = "validateRow"
    /\ ~outcome.threw
    /\ outcome.errors # <<>>
    /\ \E field \in DeclaredFields :
          /\ UnsetOptional(field)
          /\ ValueOf(field) = Null
          /\ "minimum" \in DOMAIN FieldSchemaOf(jsonSchema, field)

\* The position of a field in the declaration order of schema.properties
DeclarationIndex(field) ==
    CHOOSE i \in 1..Len(jsonSchema.properties) :
        jsonSchema.properties[i].field = field

\* C4: the errors of the result are grouped by field in the declaration order
\* of schema.properties: an error of a later-declared field never precedes an
\* error of an earlier-declared field.
C4_ErrorsInDeclarationOrder ==
    Validated =>
        \A i, j \in 1..Len(outcome.errors) :
            i < j => DeclarationIndex(outcome.errors[i].field)
                        <= DeclarationIndex(outcome.errors[j].field)

\* A result with errors of two fields whose order in required is the reverse
\* of their declaration order
C4_Witness ==
    /\ outcome.op = "validateRow"
    /\ ~outcome.threw
    /\ Len(jsonSchema.properties) >= 2
    /\ ErrorsOf(jsonSchema.properties[1].field) # <<>>
    /\ ErrorsOf(jsonSchema.properties[2].field) # <<>>
    /\ ~IsRequired(jsonSchema.properties[1].field)
    /\ IsRequired(jsonSchema.properties[2].field)

\* C5: validateRow gives the same ordered result for a (schema, row) pair
\* whatever validations the component's validator instance has served before:
\* the result of every call is the one the first call on a new instance gives.
C5_SameResultOnEveryCall ==
    outcome.op = "validateRow" =>
        LET first == RunValidation(jsonSchema, outcome.data, EmptyAjv)
        IN  /\ outcome.threw = first.threw
            /\ ~outcome.threw => outcome.errors = first.errors

\* A call on an instance that still holds the errors of an earlier validation
\* of a field the current row leaves unset
C5_Witness ==
    /\ outcome.op = "validateRow"
    /\ ~outcome.threw
    /\ \E field \in DOMAIN ajv :
          /\ ajv[field] # Null
          /\ UnsetOptional(field)

\* C6: an offending field never stops the check of the fields declared after
\* it: validateRow returns a list, and the list has the errors of every
\* offending field of the row.
C6_TotalAndBestEffort ==
    Validated =>
        /\ ~outcome.threw
        /\ \A field \in DeclaredFields :
              (MissingRequired(field) \/ (Present(field) /\ Violated(field) # {}))
              => ErrorsOf(field) # <<>>

\* C7: a present value that violates several constraints of its field gets
\* one error per violated constraint.
C7_OneErrorPerViolation ==
    Validated =>
        \A field \in DeclaredFields :
            (Present(field) /\ Cardinality(Violated(field)) >= 2)
            => /\ ~outcome.threw
               /\ Len(ErrorsOf(field)) = Cardinality(Violated(field))

(***************************************************************************)
(* Properties of column generation                                         *)
(***************************************************************************)
\* The last call generated its columns from the schema.
GeneratedFromSchema ==
    \/ columns.op = "generateColumnsFromSchema"
    \/ columns.op = "generatedColumnDefs" /\ columnDefs = Undefined

\* The last call built its columns with getDefaultColDef.
BuiltByGetDefaultColDef ==
    \/ columns.op = "getDefaultColDef"
    \/ columns.op = "generatedColumnDefs" /\ columnDefs = Undefined

\* C8: column generation yields exactly one column per key of
\* schema.properties, in declaration order, each carrying that key as its
\* field; no property is skipped or duplicated.
C8_OneColumnPerProperty ==
    GeneratedFromSchema =>
        /\ Len(columns.cols) = Len(jsonSchema.properties)
        /\ \A i \in 1..Len(columns.cols) :
              columns.cols[i].field = jsonSchema.properties[i].field

\* SchemaGrid generated the columns of a schema of two properties, one hidden
C8_Witness ==
    /\ columns.op = "generatedColumnDefs"
    /\ columnDefs = Undefined
    /\ Len(columns.cols) = 2
    /\ \E i \in 1..2 : "hide" \in DOMAIN columns.cols[i]

\* The label the documentation gives a field: the title if present, else the
\* field name, with one trailing "*" when the field is required
DocumentedLabel(field) ==
    LET fs == FieldSchemaOf(jsonSchema, field)
    IN  (IF "title" \in DOMAIN fs THEN fs.title ELSE field)
        \o (IF IsRequired(field) THEN "*" ELSE "")

\* C9: for every column generator the library exports, the label of a
\* generated column is the title if present and otherwise the field name,
\* followed by exactly one "*" if the field is required and none otherwise.
C9_LabelWithRequiredMarker ==
    GeneratedFromSchema =>
        \A i \in 1..Len(columns.cols) :
            /\ "headerName" \in DOMAIN columns.cols[i]
            /\ columns.cols[i].headerName = DocumentedLabel(columns.cols[i].field)

\* The editor of a column definition
EditorKind(colDef) ==
    IF "cellEditor" \notin DOMAIN colDef THEN "plain-text"
    ELSE CASE colDef.cellEditor = "agSelectCellEditor" -> "choice-list"
           [] colDef.cellEditor = "agNumberCellEditor" -> "numeric"
           [] colDef.cellEditor = "agDateStringCellEditor" -> "date"
           [] colDef.cellEditor = "agCheckboxCellEditor" -> "checkbox"

TypeOf(fs) == IF "type" \in DOMAIN fs THEN fs.type ELSE "undefined"

IsDateFormat(fs) == "format" \in DOMAIN fs /\ fs.format \in {"date", "date-time"}

\* The precedence as the specification words it: enum first, whatever the type
EnumFirstKind(fs) ==
    IF "enum" \in DOMAIN fs THEN "choice-list"
    ELSE IF TypeOf(fs) \in {"integer", "number"} THEN "numeric"
    ELSE IF TypeOf(fs) = "string" /\ IsDateFormat(fs) THEN "date"
    ELSE IF TypeOf(fs) = "boolean" THEN "checkbox"
    ELSE "plain-text"

\* The precedence by type: an enum yields a choice list on a string field only
TypeFirstKind(fs) ==
    IF TypeOf(fs) \in {"integer", "number"} THEN "numeric"
    ELSE IF TypeOf(fs) = "string" /\ "enum" \in DOMAIN fs THEN "choice-list"
    ELSE IF TypeOf(fs) = "string" /\ IsDateFormat(fs) THEN "date"
    ELSE IF TypeOf(fs) = "boolean" THEN "checkbox"
    ELSE "plain-text"

\* A column has the given editor kind, a choice list with the field's enum
EditorIs(colDef, kind) ==
    /\ EditorKind(colDef) = kind
    /\ kind = "choice-list"
       => colDef.cellEditorParams.values
              = FieldSchemaOf(jsonSchema, colDef.field).enum

\* C10 as stated: enum (whatever the type) gives a choice list with the enum
\* values in declared order, else numeric for integer or number, else date for
\* a string of format date or date-time, else checkbox for boolean, else
\* plain text.
C10_EnumFirstPrecedence ==
    BuiltByGetDefaultColDef =>
        \A i \in 1..Len(columns.cols) :
            EditorIs(columns.cols[i],
                     EnumFirstKind(FieldSchemaOf(jsonSchema, columns.cols[i].field)))

\* C10 as amended: numeric for integer or number (an enum on such a field is
\* ignored); for a string, a choice list with the enum values in declared
\* order if enum is present, else date for format date or date-time; checkbox
\* for boolean; plain text otherwise, also for an enum on a field without type.
C10_TypeFirstPrecedence ==
    BuiltByGetDefaultColDef =>
        \A i \in 1..Len(columns.cols) :
            EditorIs(columns.cols[i],
                     TypeFirstKind(FieldSchemaOf(jsonSchema, columns.cols[i].field)))

\* SchemaGrid generated a choice list for a string enum next to a numeric
\* editor for an integer field that has an enum
C10_Witness ==
    /\ columns.op = "generatedColumnDefs"
    /\ columnDefs = Undefined
    /\ \E i, j \in 1..Len(columns.cols) :
          /\ EditorKind(columns.cols[i]) = "choice-list"
          /\ EditorKind(columns.cols[j]) = "numeric"
          /\ "enum" \in DOMAIN FieldSchemaOf(jsonSchema, columns.cols[j].field)

\* The field names of the model that contain, in any letter case, one of
\* "price", "salary", "cost", "amount"
NamesWithCurrencyWord == {"unitPrice", "salary", "costCode"}

\* C11: a generated column is marked for currency formatting if and only if
\* its field type is number or integer and its field name contains, in any
\* letter case, one of "price", "salary", "cost", "amount"; no other column
\* gets a value formatter.
C11_CurrencyIffNumericMonetary ==
    BuiltByGetDefaultColDef =>
        \A i \in 1..Len(columns.cols) :
            LET col == columns.cols[i]
                fs == FieldSchemaOf(jsonSchema, col.field)
            IN  /\ "valueFormatter" \in DOMAIN col
                   <=> /\ TypeOf(fs) \in {"number", "integer"}
                       /\ col.field \in NamesWithCurrencyWord
                /\ "valueFormatter" \in DOMAIN col
                   => col.valueFormatter = "currency"

\* SchemaGrid generated a currency column for unitPrice next to a column
\* without formatter for the string field costCode
C11_Witness ==
    /\ columns.op = "generatedColumnDefs"
    /\ columnDefs = Undefined
    /\ \E i, j \in 1..Len(columns.cols) :
          /\ columns.cols[i].field = "unitPrice"
          /\ "valueFormatter" \in DOMAIN columns.cols[i]
          /\ columns.cols[j].field = "costCode"
          /\ "valueFormatter" \notin DOMAIN columns.cols[j]

RecognisedTypes == {"string", "number", "integer", "boolean"}

\* The column definition getDefaultColDef started from
BaseOf(i) ==
    IF columns.op = "getDefaultColDef" THEN columns.base
    ELSE BaseColDef(jsonSchema.properties[i].field, jsonSchema.properties[i].schema)

\* C12: a field schema whose type is missing or not one of string, number,
\* integer, boolean yields a column without cell editor and without currency
\* formatter, and generation yields a column for it all the same; hidden,
\* width and the required marker are applied to it as to any other column.
C12_UnknownTypePlainText ==
    BuiltByGetDefaultColDef =>
        /\ columns.op = "generatedColumnDefs"
           => Len(columns.cols) = Len(jsonSchema.properties)
        /\ \A i \in 1..Len(columns.cols) :
            LET col == columns.cols[i]
                fs == FieldSchemaOf(jsonSchema, col.field)
                base == BaseOf(i)
            IN  TypeOf(fs) \notin RecognisedTypes =>
                  /\ "cellEditor" \notin DOMAIN col
                  /\ "valueFormatter" \notin DOMAIN col
                  /\ "hide" \in DOMAIN col
                     <=> ("hidden" \in DOMAIN fs /\ fs.hidden = TRUE)
                  /\ "width" \in DOMAIN col
                     <=> ("width" \in DOMAIN fs /\ fs.width # 0)
                  /\ "width" \in DOMAIN col => col.width = fs.width
                  /\ IF IsRequired(col.field)
                     THEN col.headerName
                            = (IF "headerName" \in DOMAIN base
                               THEN base.headerName ELSE col.field) \o "*"
                     ELSE IF "headerName" \in DOMAIN base
                     THEN col.headerName = base.headerName
                     ELSE "headerName" \notin DOMAIN col

\* SchemaGrid generated the column of a required field without type that is
\* hidden and has a width, next to the column of a field of unknown type
C12_Witness ==
    /\ columns.op = "generatedColumnDefs"
    /\ columnDefs = Undefined
    /\ \E i, j \in 1..Len(columns.cols) :
          /\ columns.cols[i].field = "tag"
          /\ IsRequired("tag")
          /\ "hide" \in DOMAIN columns.cols[i]
          /\ "width" \in DOMAIN columns.cols[i]
          /\ columns.cols[j].field = "misc"
          /\ "hide" \notin DOMAIN columns.cols[j]

\* C16: when the columnDefs prop is supplied, SchemaGrid renders exactly those
\* column definitions and generates nothing from the schema; when it is
\* omitted, its columns are the ones generated from jsonSchema.properties.
C16_ColumnDefsPropWins ==
    columns.op = "generatedColumnDefs" =>
        IF columnDefs # Undefined
        THEN columns.cols = columnDefs.items
        ELSE /\ Len(columns.cols) = Len(jsonSchema.properties)
             /\ \A i \in 1..Len(columns.cols) :
                   /\ columns.cols[i].field = jsonSchema.properties[i].field
                   /\ columns.cols[i].cellStyle = "getCellStyle"

\* SchemaGrid rendered the caller's column for id with a schema that declares
\* two other properties
C16_Witness ==
    /\ columns.op = "generatedColumnDefs"
    /\ columnDefs = CustomColumnDefs
    /\ Len(jsonSchema.properties) = 2
    /\ "id" \notin DeclaredFields
    /\ Len(columns.cols) = 1

\* C17: a generated column is hidden if and only if the hidden flag of its
\* field schema is truthy; a field without hidden, or with a falsy one, yields
\* a visible column.
C17_HiddenIffFlagTruthy ==
    BuiltByGetDefaultColDef =>
        \A i \in 1..Len(columns.cols) :
            LET col == columns.cols[i]
                fs == FieldSchemaOf(jsonSchema, col.field)
            IN  ("hide" \in DOMAIN col /\ col.hide = TRUE)
                <=> ("hidden" \in DOMAIN fs /\ fs.hidden = TRUE)

\* SchemaGrid generated a hidden column for salary next to a visible column
\* for misc, whose hidden flag is false
C17_Witness ==
    /\ columns.op = "generatedColumnDefs"
    /\ columnDefs = Undefined
    /\ \E i, j \in 1..Len(columns.cols) :
          /\ columns.cols[i].field = "salary"
          /\ "hide" \in DOMAIN columns.cols[i]
          /\ columns.cols[j].field = "misc"
          /\ "hidden" \in DOMAIN FieldSchemaOf(jsonSchema, "misc")
          /\ "hide" \notin DOMAIN columns.cols[j]

(***************************************************************************)
(* Properties of the grid                                                  *)
(***************************************************************************)
\* The identity of the row object at a position: the string form of its id,
\* else the stand-in stored for the object
IdentityIn(rows, idMap, row) ==
    LET idValue == Get(rows[row], idField)
    IN  IF idValue # Undefined /\ idValue # Null
        THEN StringOf(idValue) ELSE idMap[row]

IdentityOf(row) == IdentityIn(rowData, rowIdMap, row)

\* validateRow of a row: the errors a call on a new Ajv instance returns
ResultOf(data) == RunValidation(jsonSchema, data, EmptyAjv).errors

\* The validate-all effect was the last handler to run, and it completed.
InitialPassDone == handled.op = "effect" /\ ~handled.threw

\* C13 as stated: after the initial validation pass the map has an entry for
\* the identity of every supplied row, equal to validateRow of that row (the
\* empty sequence for a row without errors).
C13_EntryOfEveryRowIsItsResult ==
    InitialPassDone =>
        \A row \in 1..Len(rowData) :
            /\ IdentityOf(row) \in DOMAIN validationErrors
            /\ validationErrors[IdentityOf(row)] = ResultOf(rowData[row])

\* The last position of rowData whose row has the identity of the given row
LastWithIdentityOf(row) ==
    CHOOSE last \in 1..Len(rowData) :
        /\ IdentityOf(last) = IdentityOf(row)
        /\ \A later \in (last + 1)..Len(rowData) :
              IdentityOf(later) # IdentityOf(row)

\* C13 as amended: after the initial validation pass the keys of the map are
\* the identities of the supplied rows, and the entry of an identity equals
\* validateRow of the last supplied row that has it (the row itself when no
\* other row shares its identity); a row without errors is present with the
\* empty sequence.
C13_EntryOfIdentityIsLastResult ==
    InitialPassDone =>
        /\ DOMAIN validationErrors = {IdentityOf(row) : row \in 1..Len(rowData)}
        /\ \A row \in 1..Len(rowData) :
              validationErrors[IdentityOf(row)]
                  = ResultOf(rowData[LastWithIdentityOf(row)])

\* The initial pass stored the empty sequence for an identity that an earlier
\* row with errors shares with a later row without errors
C13_Witness ==
    /\ InitialPassDone
    /\ \E first, last \in 1..Len(rowData) :
          /\ first < last
          /\ IdentityOf(first) = IdentityOf(last)
          /\ ResultOf(rowData[first]) # <<>>
          /\ ResultOf(rowData[last]) = <<>>
          /\ validationErrors[IdentityOf(last)] = <<>>

\* C14: a cell edit re-validates exactly the edited row: after the edit the
\* entry of the edited row's identity is the new validateRow result, which
\* replaces the sequence held before, and the entry of every other identity
\* is unchanged.
C14_EditReplacesOneEntry ==
    [][(edits' # edits /\ ~handled'.threw) =>
          LET rowId == handled'.rowId
          IN  /\ rowId = IdentityIn(rowData', rowIdMap', handled'.row)
              /\ DOMAIN validationErrors' = DOMAIN validationErrors \cup {rowId}
              /\ validationErrors'[rowId] = ResultOf(rowData'[handled'.row])
              /\ \A other \in DOMAIN validationErrors \ {rowId} :
                    validationErrors'[other] = validationErrors[other]]_vars

\* An edit replaced a sequence of errors by a different one, in a map that
\* holds the errors of another identity too
C14_Witness ==
    /\ handled.op = "edit"
    /\ ~handled.threw
    /\ handled.replaced.held
    /\ handled.replaced.errors # <<>>
    /\ validationErrors[handled.rowId] # <<>>
    /\ validationErrors[handled.rowId] # handled.replaced.errors
    /\ \E other \in DOMAIN validationErrors :
          other # handled.rowId /\ validationErrors[other] # <<>>

\* The identities the last handler looked up are those of its rows.
HandlerUsedIdentities(rows, idMap, last) ==
    /\ last.op = "edit" => last.rowId = IdentityIn(rows, idMap, last.row)
    /\ last.op = "effect" =>
          \A row \in 1..Len(last.ids) : last.ids[row] = IdentityIn(rows, idMap, row)

\* C15: the identity of a row is the string form of its idField value when
\* that value is neither undefined nor null; otherwise it is a generated
\* stand-in, made once for the row object and the same on every later lookup.
C15_IdentityFromIdOrStandIn ==
    [][/\ HandlerUsedIdentities(rowData', rowIdMap', handled')
       /\ \A row \in DOMAIN rowIdMap :
             row \in DOMAIN rowIdMap' /\ rowIdMap'[row] = rowIdMap[row]]_vars

\* An edit looked up a row without id under the stand-in the initial pass had
\* stored its errors under, next to a row known by its id
C15_Witness ==
    /\ handled.op = "edit"
    /\ Get(rowData[handled.row], idField) \in {Undefined, Null}
    /\ handled.rowId \in GeneratedIds
    /\ handled.replaced.held
    /\ "AB1234" \in DOMAIN validationErrors

\* C18: validateRow has no side effects: a call changes neither the row, nor
\* the schema, nor the validation map; only its caller stores the result.
C18_ValidateRowChangesNothing ==
    [][outcome' # outcome =>
          UNCHANGED <<jsonSchema, rowData, validationErrors, rendered, memoized,
                      reported, rowIdMap>>]_vars

\* validateRow returned errors for a row of the grid while the map holds no
\* entry at all
C18_Witness ==
    /\ outcome.op = "validateRow"
    /\ ~outcome.threw
    /\ outcome.errors # <<>>
    /\ \E row \in 1..Len(rowData) : rowData[row] = outcome.data
    /\ validationErrors = EmptyMap

\* C19: the map passed to onValidationError for an edit equals the map the
\* component holds once that edit is applied, also when edits are handled
\* before the component renders again.
C19_ReportedMapIsHeldMap ==
    [][(edits' # edits /\ ~handled'.threw) => reported' = validationErrors']_vars

\* The rows whose identity is known without a new stand-in
Identified ==
    {row \in 1..Len(rowData) :
        Get(rowData[row], idField) \notin {Undefined, Null}
        \/ row \in DOMAIN rowIdMap}

\* The messages of the errors that a map holds for an identity and a field,
\* joined with ", " in the order of the row's error list; Null when there
\* is no entry or no error of the field
HoverTextOf(errorsMap, rowId, field) ==
    IF rowId \notin DOMAIN errorsMap THEN Null
    ELSE LET errs == SelectSeq(errorsMap[rowId], LAMBDA err : err.field = field)
             text[n \in 1..Len(errs)] ==
                IF n = 1 THEN errs[1].message
                ELSE text[n - 1] \o ", " \o errs[n].message
         IN  IF errs = <<>> THEN Null ELSE Str(text[Len(errs)])

Highlighted(rowId, field) ==
    CellStyle(rowId, field) = [backgroundColor |-> "#ffdddd"]

\* C20: the hover text of a cell is the messages of the errors the map holds
\* for its row identity and field, joined with ", " in order, and null when
\* there is no entry or no error of the field; a cell is highlighted exactly
\* when its hover text is present.
C20_HoverTextAndHighlight ==
    ~Unmounted =>
        \A row \in Identified : \A field \in DeclaredFields :
            /\ TooltipValue(IdentityOf(row), field)
                  = HoverTextOf(rendered, IdentityOf(row), field)
            /\ Highlighted(IdentityOf(row), field)
               <=> TooltipValue(IdentityOf(row), field) # Null

(***************************************************************************)
(* Properties of the values a field holds                                  *)
(***************************************************************************)
\* C21: an optional field whose value is present, the empty string, 0 and
\* false included, is validated against its constraints and yields one error
\* per constraint it violates; only an absent or null value exempts it.
C21_OptionalPresentIsValidated ==
    Validated =>
        /\ ~outcome.threw
        /\ \A field \in DeclaredFields :
              ~IsRequired(field) =>
                 IF ValueOf(field) \in {Undefined, Null}
                 THEN ErrorsOf(field) = <<>>
                 ELSE Len(ErrorsOf(field)) = Cardinality(Violated(field))

\* validateRow returned the minLength error of an optional name that holds
\* "", and errors of an optional count that holds 0 and of an optional flag
\* that holds false
C21_Witness ==
    /\ outcome.op = "validateRow"
    /\ \A field \in ValueFieldNames : field \in DeclaredFields /\ ~IsRequired(field)
    /\ ValueOf("name") = EmptyString
    /\ ErrorsOf("name")
          = <<[field |-> "name",
               message |-> "must NOT have fewer than 1 characters"]>>
    /\ ValueOf("count") = Num(0) /\ Len(ErrorsOf("count")) = 1
    /\ ValueOf("flag") = Bool(FALSE) /\ Len(ErrorsOf("flag")) = 1

\* C23: a required field gets the "is required" error only when its value is
\* undefined, null or the empty string; a required field that holds 0 or
\* false gets none and is validated against its constraints.
C23_RequiredMissingOnlyWhenEmpty ==
    Validated =>
        /\ ~outcome.threw
        /\ \A field \in DeclaredFields :
              IsRequired(field) =>
                 /\ Includes(outcome.errors, RequiredError(field))
                    <=> ValueOf(field) \in {Undefined, Null, EmptyString}
                 /\ ValueOf(field) \notin {Undefined, Null, EmptyString}
                    => Len(ErrorsOf(field)) = Cardinality(Violated(field))

\* validateRow returned the minimum error of a required count that holds 0
\* and the enum error of a required flag that holds false, next to the
\* "is required" error of a name that holds ""
C23_Witness ==
    /\ outcome.op = "validateRow"
    /\ \A field \in ValueFieldNames : field \in DeclaredFields /\ IsRequired(field)
    /\ ValueOf("name") = EmptyString
    /\ ErrorsOf("name") = <<RequiredError("name")>>
    /\ ValueOf("count") = Num(0)
    /\ ErrorsOf("count") = <<[field |-> "count", message |-> "must be >= 1"]>>
    /\ ValueOf("flag") = Bool(FALSE)
    /\ ErrorsOf("flag")
          = <<[field |-> "flag",
               message |-> "must be equal to one of the allowed values"]>>

(***************************************************************************)
(* Properties of numeric bounds                                            *)
(***************************************************************************)
\* Whether a number is within a bound of a field schema; exclusiveMinimum
\* and exclusiveMaximum set to true take the bound value itself out.
WithinBound(bound, fs, n) ==
    CASE bound = "minimum" ->
            IF "exclusiveMinimum" \in DOMAIN fs /\ fs.exclusiveMinimum
            THEN n > fs.minimum ELSE n >= fs.minimum
      [] bound = "maximum" ->
            IF "exclusiveMaximum" \in DOMAIN fs /\ fs.exclusiveMaximum
            THEN n < fs.maximum ELSE n <= fs.maximum

ViolatedBounds(fs, n) ==
    {bound \in DOMAIN fs \cap {"minimum", "maximum"} : ~WithinBound(bound, fs, n)}

\* C22: numeric bounds are inclusive: a number equal to the minimum or the
\* maximum of its field yields no error and a number outside yields one
\* error per violated bound; where the schema marks the bound exclusive, the
\* bound value itself yields an error.
C22_BoundsInclusiveUnlessExclusive ==
    /\ outcome.op = "App.validateRow" =>
          \A field \in {"age", "salary"} :
             ValueOf(field).k = "number" =>
                Len(ErrorsOf(field))
                   = Cardinality(ViolatedBounds(AppFieldSchema(field), ValueOf(field).n))
    /\ outcome.op = "validateRow" =>
          /\ ~outcome.threw
          /\ Len(ErrorsOf("age"))
                = Cardinality(ViolatedBounds(FieldSchemaOf(jsonSchema, "age"),
                                             ValueOf("age").n))

\* the hand-written validator accepted the age 100, the maximum, and
\* rejected the salary 0, the minimum the schema marks exclusive
C22_Witness ==
    /\ outcome.op = "App.validateRow"
    /\ ValueOf("age") = Num(100) /\ ErrorsOf("age") = <<>>
    /\ ValueOf("salary") = Num(0)
    /\ ErrorsOf("salary")
          = <<[field |-> "salary", message |-> "Salary must be greater than 0"]>>

(***************************************************************************)
(* Properties of the map over the life of the grid                         *)
(***************************************************************************)
\* No field schema of jsonSchema makes ajv.compile throw, so that every
\* handler runs to its end.
SchemaCompiles ==
    \A i \in 1..Len(jsonSchema.properties) :
        ~AjvCompileThrows(jsonSchema.properties[i].schema)

\* The identities of the rows now in the grid
CurrentIdentities == {IdentityOf(row) : row \in 1..Len(rowData)}

\* No other row now in the grid has the identity of the given row.
SoleBearer(row) ==
    \A other \in 1..Len(rowData) :
        IdentityOf(other) = IdentityOf(row) => other = row

\* C24: after the initial load and any sequence of cell edits, edits of the
\* idField value included, the keys of the map are the identities of the rows
\* now in the grid and the entry of an identity is validateRow of the row that
\* bears it now: no entry survives under an identity no row has any more.
C24_MapKeysAreCurrentIdentities ==
    (handled.op \in {"effect", "edit"} /\ SchemaCompiles) =>
        /\ DOMAIN validationErrors = CurrentIdentities
        /\ \A row \in 1..Len(rowData) :
              SoleBearer(row) =>
                  /\ IdentityOf(row) \in DOMAIN validationErrors
                  /\ validationErrors[IdentityOf(row)] = ResultOf(rowData[row])

\* C25: on the initial validation pass rows of one identity share a single
\* entry, the error list of the last of them in rowData order; the map has as
\* many entries as there are distinct identities, not as there are rows.
C25_OneEntryPerIdentityLastWins ==
    InitialPassDone =>
        /\ Cardinality(DOMAIN validationErrors) = Cardinality(CurrentIdentities)
        /\ \A first, last \in 1..Len(rowData) :
              (/\ first < last
               /\ IdentityOf(first) = IdentityOf(last)
               /\ \A later \in (last + 1)..Len(rowData) :
                     IdentityOf(later) # IdentityOf(last))
              => validationErrors[IdentityOf(first)] = ResultOf(rowData[last])

\* The initial pass over two rows of one id left one entry: the errors of the
\* second row, where the first row has none
C25_Witness ==
    /\ InitialPassDone
    /\ Len(rowData) = 2
    /\ Get(rowData[1], idField) = Get(rowData[2], idField)
    /\ Get(rowData[1], idField) \notin {Undefined, Null}
    /\ ResultOf(rowData[1]) = <<>>
    /\ ResultOf(rowData[2]) # <<>>
    /\ Cardinality(DOMAIN validationErrors) = 1
    /\ validationErrors[IdentityOf(1)] = ResultOf(rowData[2])

(***************************************************************************)
(* Properties of the callbacks                                             *)
(***************************************************************************)
\* The positions of the calls of a function in the calls of the last handler
CallsOf(fn) == {i \in 1..Len(handled.calls) : handled.calls[i].fn = fn}

\* C26: handling one cell edit performs, in this order and each at most once,
\* the update of the edited row's entry, the call of onValidationError if it
\* was passed, and the call of onCellValueChanged if it was passed, with the
\* original event; onCellValueChanged is called whether or not the edited row
\* has errors.
C26_EditCallsInOrder ==
    (handled.op = "edit" /\ ~handled.threw) =>
        /\ \A i \in 1..Len(handled.calls) :
              handled.calls[i].fn \in {"setValidationErrors", "onValidationError",
                                       "onCellValueChanged"}
        /\ Cardinality(CallsOf("setValidationErrors")) = 1
        /\ Cardinality(CallsOf("onValidationError"))
              = IF parent.onValidationError # "none" THEN 1 ELSE 0
        /\ Cardinality(CallsOf("onCellValueChanged"))
              = IF parent.onCellValueChanged THEN 1 ELSE 0
        /\ \A i \in CallsOf("setValidationErrors") :
              /\ handled.calls[i].arg.rowId = handled.rowId
              /\ validationErrors[handled.rowId] = handled.calls[i].arg.errors
              /\ \A j \in CallsOf("onValidationError") \cup CallsOf("onCellValueChanged") :
                    i < j
        /\ \A j \in CallsOf("onValidationError") :
              /\ handled.calls[j].arg = reported
              /\ \A k \in CallsOf("onCellValueChanged") : j < k
        /\ \A k \in CallsOf("onCellValueChanged") :
              /\ handled.calls[k].arg = handled.params
              /\ handled.params.data = rowData[handled.row]
              /\ handled.params.field = handled.field

\* An edit that left its row without errors made the three calls, the last of
\* them onCellValueChanged
C26_Witness ==
    /\ handled.op = "edit"
    /\ ~handled.threw
    /\ validationErrors[handled.rowId] = <<>>
    /\ Len(handled.calls) = 3
    /\ handled.calls[1].fn = "setValidationErrors"
    /\ handled.calls[2].fn = "onValidationError"
    /\ handled.calls[3].fn = "onCellValueChanged"
    /\ handled.calls[3].arg = handled.params

\* Neither the effect nor a render of the parent is scheduled.
Quiescent == ~effectPending /\ ~parent.renderPending

\* C27: after rowData or the schema changes the validation pass over all rows
\* runs finitely often and the component comes to rest, also under a parent
\* whose onValidationError handler keeps what it receives in its state and
\* which passes a schema object or a handler made anew on each render.
C27_PassesEndInQuiescence == <>[]Quiescent

\* The initial load is done and every scheduled effect and render has run.
Settled ==
    /\ handled.op # "none"
    /\ Quiescent
    /\ rendered = validationErrors

\* The flag isDataValid of the demo application
isDataValid == parent.state

\* C28: in the demo application, after the initial load and after any
\* sequence of cell edits, isDataValid is true if and only if every row now in
\* the grid has an empty error list.
C28_FlagIffEveryRowClean ==
    Settled =>
        (isDataValid <=> \A row \in 1..Len(rowData) : ResultOf(rowData[row]) = <<>>)

(***************************************************************************)
(* Properties of the whole-schema validator                                *)
(***************************************************************************)
\* JSON Schema: the validated row has every required property, and the value
\* of every property it has satisfies the constraints of that property.
RowSatisfiesSchema ==
    /\ \A i \in 1..Len(RequiredFields(jsonSchema)) :
          ValueOf(RequiredFields(jsonSchema)[i]) # Undefined
    /\ \A field \in DeclaredFields :
          ValueOf(field) # Undefined => Violated(field) = {}

\* C29: the whole-schema variant of validateRow returns the empty list
\* exactly when the row satisfies the schema; a row that lacks a required
\* field yields at least one error attributed to that field.
C29_WholeSchemaEmptyIffValid ==
    outcome.op = "DataGrid.validateRow" =>
        /\ outcome.errors = <<>> <=> RowSatisfiesSchema
        /\ \A field \in DeclaredFields :
              (IsRequired(field) /\ ValueOf(field) = Undefined)
                  => ErrorsOf(field) # <<>>

====
